---- MODULE Spec2Model ----
(***************************************************************************)
(* VOD-Insights: the resumable VOD scan worker (app/vod_ocr.py) with the   *)
(* web controller that starts, pauses, resumes and stops it                *)
(* (app/webui.py), the multi-VOD session manager and its seek endpoints    *)
(* (app/multi_vod_manager.py, app/multi_vod_api.py, app/multi_vod_models.py)*)
(* and the clip-window merge (app/split_bookmarks.py).                     *)
(*                                                                         *)
(* Numbers: seconds, offsets and durations are integers; a confidence is   *)
(* an integer number of hundredths (1.0 is 100).                           *)
(***************************************************************************)
EXTENDS Integers, Sequences, FiniteSets, TLC

VARIABLES
    \* ---- scan worker and controller (vod_ocr.py, webui.py) ----
    video,            \* OCR lines of each frame of the video file
    paused_marker,    \* <prefix>_<stem>.paused
    scanning_marker,  \* <prefix>_<stem>.scanning
    logs,             \* bookmark log files of the video, by session id
    next_session,     \* session id (start time) the next new log gets
    starts,           \* number of worker processes spawned so far
    proc,             \* worker processes: position and locals of main()
    tracked,          \* _vod_ocr_processes[vod_path]
    run,              \* history of each worker run (what it read, sampled, wrote)
    pauses,           \* history: frame_index of the last two pauses of the scan
    \* ---- multi-VOD session manager (multi_vod_manager.py, multi_vod_api.py) ----
    disk,             \* the persisted session document (or NoFileOnDisk)
    clock,            \* datetime.now().timestamp()
    lastCall,         \* the last request and its result
    req,              \* in-flight requests of concurrent callers (loaded copy)
    \* ---- window merge (split_bookmarks.py) ----
    mw,               \* input, gap and results of merge_windows
    sp,               \* one run of split_from_config: events, windows, trims
    \* ---- live detector (detector.py) ----
    det,              \* an EventDetector: _last_trigger, and its last call
    \* ---- timer reading and sync (ocr_timer_detector.py, routes/ocr_sync.py) ----
    tm,               \* the last timer parse or sync request and its reply
    \* ---- a bookmark log as bytes (bookmark_writer.py, load_bookmarks) ----
    bk,               \* the file, the write in flight, and the last load
    \* ---- Twitch VOD downloader (vod_download.py) ----
    dl,               \* jobs[job_id], the download thread, and what the caller saw
    \* ---- scans of several videos (webui.py, vod_ocr.py) ----
    fleet             \* markers by stem, worker processes, _vod_ocr_processes

scanVars == <<video, paused_marker, scanning_marker, logs, next_session, starts, proc, tracked, run, pauses>>
sessVars == <<disk, clock, lastCall, req>>
mergeVars == <<mw, sp, det, tm, bk, dl, fleet>>
vars == <<scanVars, sessVars, mergeVars>>

Max(a, b) == IF a >= b THEN a ELSE b
Min(a, b) == IF a <= b THEN a ELSE b

(***************************************************************************)
(* Bounds of the model                                                     *)
(***************************************************************************)
TotalFrames == 6        \* frames in the video file (CAP_PROP_FRAME_COUNT)
VideoFps == 2           \* native frame rate of the video file
Cooldown == 2           \* detection.cooldown_seconds of the configuration
MaxStarts == 3          \* worker processes spawned for the video

SampleFps == 1          \* sampling rate asked for (vod_ocr.fps)

\* One process slot: this part follows one worker of the video at a time;
\* workers running side by side are in the part on several videos.
Workers == {"w1"}
Frames == 1..TotalFrames
NoLog == 0 - 1          \* no path
CwdDir == 0             \* Path("") is the current directory "."
LogIds == 1..MaxStarts

(***************************************************************************)
(* Keyword matching (vod_ocr.detect_match)                                 *)
(***************************************************************************)
\* A line is a sequence of characters; the alphabet is cut down to a letter
\* of the keyword in both cases, another letter, and a punctuation sign.
Keywords == << <<"k">> >>

LowerChar(c) == IF c = "K" THEN "k" ELSE c
IsAlnumOrSpace(c) == c \in {"k", "K", "x", " "}

RECURSIVE Normalize(_)
Normalize(line) ==
    IF line = <<>> THEN <<>>
    ELSE LET c == LowerChar(Head(line))
         IN (IF IsAlnumOrSpace(c) THEN <<c>> ELSE <<>>) \o Normalize(Tail(line))

Contains(kw, s) ==
    \E i \in 0..(Len(s) - Len(kw)) : \A j \in 1..Len(kw) : s[i + j] = kw[j]

RECURSIVE detect_match(_, _)
detect_match(lines, keywords) ==
    IF lines = <<>> THEN <<>>
    ELSE IF \E k \in 1..Len(keywords) : Contains(keywords[k], Normalize(Head(lines)))
         THEN Head(lines)
         ELSE detect_match(Tail(lines), keywords)

\* What the recognition engine returns for a frame: nothing, a line without
\* the keyword, or a line with it (upper case, with punctuation).
FrameLines == { <<>>, << <<"x">> >>, << <<"x">>, <<"K", "!">> >> }

(***************************************************************************)
(* Scan worker: vod_ocr.main                                               *)
(***************************************************************************)
\* round(num / den): halves go to the even neighbour.
Round(num, den) ==
    LET q == num \div den
        twice == 2 * (num % den)
    IN IF twice < den THEN q
       ELSE IF twice > den THEN q + 1
       ELSE IF q % 2 = 0 THEN q ELSE q + 1
SampleInterval == IF VideoFps > 0 THEN Max(1, Round(VideoFps, SampleFps)) ELSE 1
\* seconds_since_start = frame_index / video_fps, kept exact as a count of
\* 1/VideoFps seconds; CooldownTicks is cooldown_seconds in the same unit.
SecondsOf(frame) == Max(0, frame)
CooldownTicks == Cooldown * VideoFps
ProgressOf(frame) == IF TotalFrames > 0 THEN Min(100, (frame * 100) \div TotalFrames) ELSE 0

AbsentMarker == [kind |-> "absent", frame_index |-> 0, session_file |-> NoLog, progress |-> 0]
\* {"paused": true}, as the controller writes it
RequestMarker == [kind |-> "request", frame_index |-> 0, session_file |-> CwdDir, progress |-> 0]
\* a marker whose content json.loads rejects (an empty or cut-off file)
GarbageMarker == [kind |-> "garbage", frame_index |-> 0, session_file |-> NoLog, progress |-> 0]
StateMarker(f, file, p) == [kind |-> "state", frame_index |-> f, session_file |-> file, progress |-> p]

NoScanning == [exists |-> FALSE, progress |-> 0, paused |-> FALSE]
Scanning(p, isPaused) == [exists |-> TRUE, progress |-> p, paused |-> isPaused]

NoFile == [exists |-> FALSE, recs |-> <<>>]
PathExists(file) == file = CwdDir \/ (file \in LogIds /\ logs[file].exists)

IdleProc == [pc |-> "idle", resume |-> FALSE, frame_index |-> 0, start_frame |-> 0,
             session_file |-> NoLog, last_match_time |-> NoLog, last_progress |-> 0 - 1,
             first |-> TRUE]
NoRun == [found |-> "none", resumed |-> FALSE, from_frame |-> 0, from_file |-> NoLog, file_existed |-> FALSE,
          grabbed |-> 0, sampled |-> {}, wrote |-> {}, created |-> NoLog]
Live(w) == proc[w].pc \in {"starting", "scanning"}
Exited(how) == [IdleProc EXCEPT !.pc = how]

InitScan ==
    /\ video \in {v \in [Frames -> FrameLines] :
                     \A f \in Frames : f % SampleInterval # 0 => v[f] = <<>>}
    /\ paused_marker = AbsentMarker
    /\ scanning_marker = NoScanning
    /\ logs = [l \in LogIds |-> NoFile]
    /\ next_session = 1
    /\ starts = 0
    /\ proc = [w \in Workers |-> IdleProc]
    /\ tracked = "none"
    /\ run = [w \in Workers |-> NoRun]
    /\ pauses = <<0, 0>>

\* ---- controller: webui.py ----

\* POST /api/vod-ocr: spawn a worker for the video, without --resume.
ApiRun(w) ==
    /\ ~Live(w)
    /\ starts < MaxStarts
    /\ starts' = starts + 1
    /\ proc' = [proc EXCEPT ![w] = [IdleProc EXCEPT !.pc = "starting", !.resume = FALSE]]
    /\ run' = [run EXCEPT ![w] = NoRun]
    /\ tracked' = w
    /\ UNCHANGED <<video, paused_marker, scanning_marker, logs, next_session, pauses>>
    /\ UNCHANGED <<sessVars, mergeVars>>

\* POST /api/resume-vod-ocr: refuse without a pause marker, else spawn --resume.
ApiResume(w) ==
    /\ ~Live(w)
    /\ starts < MaxStarts
    /\ starts' = starts + 1
    /\ paused_marker.kind # "absent"
    /\ proc' = [proc EXCEPT ![w] = [IdleProc EXCEPT !.pc = "starting", !.resume = TRUE]]
    /\ run' = [run EXCEPT ![w] = NoRun]
    /\ tracked' = w
    /\ UNCHANGED <<video, paused_marker, scanning_marker, logs, next_session, pauses>>
    /\ UNCHANGED <<sessVars, mergeVars>>

\* POST /api/pause-vod-ocr: write {"paused": true} over the pause marker.
ApiPause ==
    /\ paused_marker' = RequestMarker
    /\ UNCHANGED <<video, scanning_marker, logs, next_session, starts, proc, tracked, run, pauses>>
    /\ UNCHANGED <<sessVars, mergeVars>>

\* POST /api/stop-vod-ocr: terminate the tracked process, remove both markers.
ApiStop ==
    /\ proc' = [w \in Workers |->
                   IF w = tracked /\ Live(w) THEN Exited("killed") ELSE proc[w]]
    /\ tracked' = "none"
    /\ scanning_marker' = NoScanning
    /\ paused_marker' = AbsentMarker
    /\ pauses' = <<0, 0>>
    /\ UNCHANGED <<video, logs, next_session, starts, run>>
    /\ UNCHANGED <<sessVars, mergeVars>>

\* POST /api/delete-sessions: unlink every bookmark log of the video.
ApiDeleteSessions ==
    /\ \E l \in LogIds : logs[l].exists
    /\ logs' = [l \in LogIds |-> NoFile]
    /\ UNCHANGED <<video, paused_marker, scanning_marker, next_session, starts, proc, tracked, run, pauses>>
    /\ UNCHANGED <<sessVars, mergeVars>>

\* atexit: write {"paused": true} for every video in _vod_ocr_processes; the
\* application then ends and a restarted one tracks nothing.
cleanup_on_exit ==
    /\ tracked # "none"
    /\ paused_marker' = RequestMarker
    /\ tracked' = "none"
    /\ UNCHANGED <<video, scanning_marker, logs, next_session, starts, proc, run, pauses>>
    /\ UNCHANGED <<sessVars, mergeVars>>

\* ---- worker: vod_ocr.main ----

\* Lines 100-111: the video is not there or cannot be opened; the worker
\* logs the error and returns before it touches any marker or log.
WorkerOpenFails(w) ==
    /\ proc[w].pc = "starting"
    /\ proc' = [proc EXCEPT ![w] = Exited("failed")]
    /\ UNCHANGED <<video, paused_marker, scanning_marker, logs, next_session, starts, tracked, run, pauses>>
    /\ UNCHANGED <<sessVars, mergeVars>>

\* Lines 143-193: read the pause marker when resuming (a marker that does
\* not parse is left where it is), choose the bookmark log, write the
\* scanning marker, create the log file.
WorkerMain(w) ==
    /\ proc[w].pc = "starting"
    /\ LET p == proc[w]
           reads == p.resume /\ paused_marker.kind \notin {"absent", "garbage"}
           named == paused_marker.session_file
           found == reads /\ PathExists(named)
           start_frame == IF found THEN paused_marker.frame_index ELSE 0
           fresh == ~found
           session_file == IF found THEN named ELSE next_session
       IN /\ next_session' = IF fresh THEN next_session + 1 ELSE next_session
          /\ paused_marker' = IF reads THEN AbsentMarker ELSE paused_marker
          /\ scanning_marker' = Scanning(0, FALSE)
          /\ logs' = IF session_file \in LogIds /\ ~logs[session_file].exists
                      THEN [logs EXCEPT ![session_file] = [exists |-> TRUE, recs |-> <<>>]]
                      ELSE logs
          /\ proc' = [proc EXCEPT ![w] = [p EXCEPT !.pc = "scanning",
                                                   !.start_frame = start_frame,
                                                   !.session_file = session_file,
                                                   !.frame_index = 0,
                                                   !.last_match_time = NoLog,
                                                   !.last_progress = 0 - 1,
                                                   !.first = TRUE]]
          /\ run' = [run EXCEPT ![w] =
                        [found |-> IF ~p.resume THEN "none"
                                   ELSE IF paused_marker.kind = "absent" THEN "missing"
                                   ELSE IF paused_marker.kind = "garbage" THEN "unparsable"
                                   ELSE IF paused_marker.kind = "request" THEN "request"
                                   ELSE IF ~PathExists(named) THEN "log_gone"
                                   ELSE "state",
                         resumed |-> reads /\ paused_marker.kind = "state",
                         from_frame |-> paused_marker.frame_index,
                         from_file |-> named,
                         file_existed |-> found,
                         grabbed |-> 0, sampled |-> {}, wrote |-> {},
                         created |-> IF fresh THEN session_file ELSE NoLog]]
          /\ pauses' = IF found /\ paused_marker.kind = "state" THEN pauses ELSE <<0, 0>>
    /\ UNCHANGED <<video, tracked, starts>>
    /\ UNCHANGED <<sessVars, mergeVars>>

\* A worker that saves the frame it started from instead of the frame it reached.
PausedDataStale(p) == StateMarker(p.start_frame, p.session_file, ProgressOf(p.start_frame))

\* Lines 213-217: paused_data
PausedData(p) == StateMarker(p.frame_index, p.session_file, ProgressOf(p.frame_index))

\* Lines 210-225 and the finally block: the poll finds the pause marker.
WorkerPause(w) ==
    /\ proc[w].pc = "scanning"
    /\ paused_marker.kind # "absent"
    /\ LET paused_data == PausedData(proc[w])
       IN /\ paused_marker' = paused_data
          /\ scanning_marker' = Scanning(paused_data.progress, TRUE)
          /\ pauses' = <<pauses[2], paused_data.frame_index>>
    /\ proc' = [proc EXCEPT ![w] = Exited("paused")]
    /\ UNCHANGED <<video, logs, next_session, starts, tracked, run>>
    /\ UNCHANGED <<sessVars, mergeVars>>

\* Lines 210-217 and the finally block: the poll finds the pause marker, and
\* write_text fails after it has emptied the file; the error ends the worker.
WorkerPauseFails(w) ==
    /\ proc[w].pc = "scanning"
    /\ paused_marker.kind # "absent"
    /\ paused_marker' = GarbageMarker
    /\ proc' = [proc EXCEPT ![w] = Exited("failed")]
    /\ UNCHANGED <<video, scanning_marker, logs, next_session, starts, tracked, run, pauses>>
    /\ UNCHANGED <<sessVars, mergeVars>>

\* A finally block that removes the scanning marker whatever it finds.
FinallyRemoves == NoScanning

\* The finally block (lines 274-279) when the worker leaves the loop
\* without having handled a pause.
FinallyScanning == IF paused_marker.kind = "absent" THEN NoScanning ELSE scanning_marker

\* BookmarkWriter.write: append one record; opening for append creates the file.
\* The record holds the time of the frame (the file keeps it to 0.01 s).
WriteBookmark(file, seconds) ==
    [logs EXCEPT ![file] = [exists |-> TRUE, recs |-> Append(logs[file].recs, seconds)]]

\* A loop that forgets to skip the frames scanned before the pause.
SkippedNoResume(p, f) == f % SampleInterval # 0

\* Lines 232-237: the frames the loop passes over.
Skipped(p, f) == f <= p.start_frame \/ f % SampleInterval # 0

\* Lines 227-273: one iteration that grabs a frame.  The first iteration
\* always polls (last_pause_check starts at 0); later ones poll once a
\* second, so an iteration may go by without seeing the marker.
WorkerStep(w) ==
    /\ proc[w].pc = "scanning"
    /\ ~(proc[w].first /\ paused_marker.kind # "absent")
    /\ proc[w].frame_index < TotalFrames
    /\ LET p == proc[w]
           f == p.frame_index + 1
           skipped == Skipped(p, f)
           seconds == SecondsOf(f)
           matched == detect_match(video[f], Keywords) # <<>>
           accepted == /\ ~skipped
                       /\ matched
                       /\ (p.last_match_time = NoLog \/ seconds - p.last_match_time >= CooldownTicks)
           crash == accepted /\ p.session_file = CwdDir
           progress == ProgressOf(f)
       IN IF crash
          THEN /\ proc' = [proc EXCEPT ![w] = Exited("failed")]
               /\ scanning_marker' = FinallyScanning
               /\ run' = [run EXCEPT ![w].sampled = @ \cup {f}, ![w].grabbed = f]
               /\ UNCHANGED logs
          ELSE /\ proc' = [proc EXCEPT ![w] =
                             [p EXCEPT !.frame_index = f,
                                       !.first = FALSE,
                                       !.last_match_time = IF accepted THEN seconds ELSE @,
                                       !.last_progress =
                                           IF ~skipped /\ progress > @ THEN progress ELSE @]]
               /\ logs' = IF accepted THEN WriteBookmark(p.session_file, seconds) ELSE logs
               /\ scanning_marker' = IF ~skipped /\ progress > p.last_progress
                                      THEN Scanning(progress, FALSE)
                                      ELSE scanning_marker
               /\ run' = [run EXCEPT ![w].grabbed = f,
                                     ![w].sampled = IF skipped THEN @ ELSE @ \cup {f},
                                     ![w].wrote = IF accepted THEN @ \cup {p.session_file} ELSE @]
    /\ UNCHANGED <<video, paused_marker, next_session, starts, tracked, pauses>>
    /\ UNCHANGED <<sessVars, mergeVars>>

\* Lines 227-229 and 274-281: grab() finds no frame left; the worker ends.
WorkerEnd(w) ==
    /\ proc[w].pc = "scanning"
    /\ ~(proc[w].first /\ paused_marker.kind # "absent")
    /\ proc[w].frame_index = TotalFrames
    /\ proc' = [proc EXCEPT ![w] = Exited("completed")]
    /\ scanning_marker' = FinallyScanning
    /\ pauses' = <<0, 0>>
    /\ UNCHANGED <<video, paused_marker, logs, next_session, starts, tracked, run>>
    /\ UNCHANGED <<sessVars, mergeVars>>

NextScan ==
    \/ \E w \in Workers : ApiRun(w)
    \/ \E w \in Workers : ApiResume(w)
    \/ ApiPause
    \/ ApiStop
    \/ ApiDeleteSessions
    \/ cleanup_on_exit
    \/ \E w \in Workers : WorkerMain(w)
    \/ \E w \in Workers : WorkerPause(w)
    \/ \E w \in Workers : WorkerStep(w)
    \/ \E w \in Workers : WorkerEnd(w)

\* webui.find_vod_scan_state: what a status query reports for the video.
NoProgress == 0 - 1     \* progress = None
find_vod_scan_state ==
    LET scanned == \E l \in LogIds : logs[l].exists
        scanning == scanning_marker.exists
        paused == paused_marker.kind # "absent"
    IN [scanned |-> scanned,
        scanning |-> scanning,
        paused |-> paused \/ (scanning /\ scanning_marker.paused),
        progress |-> IF scanning THEN scanning_marker.progress
                     ELSE IF paused /\ paused_marker.kind = "state" THEN paused_marker.progress
                     ELSE NoProgress]

\* The scan with the errors of its environment: a video that cannot be
\* opened, a marker write that fails.
NextFaults ==
    \/ NextScan
    \/ \E w \in Workers : WorkerOpenFails(w)
    \/ \E w \in Workers : WorkerPauseFails(w)

(***************************************************************************)
(* Multi-VOD sessions: multi_vod_models.py, multi_vod_manager.py,          *)
(* multi_vod_api.py                                                        *)
(***************************************************************************)
MaxHistory == 2         \* history entries stored in one session
MaxClock == 1           \* readings of the wall clock

NoConfidence == 0 - 1   \* confidence = None
VodIds == {"a", "b"}                    \* ids a created vod can carry
InputIds == VodIds \cup {"z"}           \* ids a request can name
Offsets == {0 - 2, 3}
SeekTimes == {0 - 1, 2, 5}
\* (source, confidence) of a request: set by hand, or read off the timer
Provenances == {<<"manual", NoConfidence>>, <<"timer_ocr", 88>>}
\* and the requests that name the timer without a confidence
AnyProvenances == Provenances \cup {<<"timer_ocr", NoConfidence>>}

\* MultiVodSessionVod(vod_id, name, path, duration, ...) with the defaults of
\* the dataclass.
MultiVodSessionVod(vod_id, path, duration) ==
    [vod_id |-> vod_id, path |-> path, duration |-> duration,
     offset |-> 0, offset_confidence |-> 100, offset_source |-> "manual",
     offset_history |-> <<>>, current_time |-> 0, playback_state |-> "paused"]

\* MultiVodSession(vods=...) with the defaults of the dataclass.
MultiVodSession(vods) ==
    [vods |-> vods, global_time |-> 0, global_playback_state |-> "paused"]

\* The vods a caller can offer: a sound one for each id, and one with each
\* defect that validate looks for.
SoundVods == {MultiVodSessionVod(id, "p", 3) : id \in VodIds}
VodPool == SoundVods
           \cup {MultiVodSessionVod("a", "", 3), MultiVodSessionVod("", "p", 3),
                 MultiVodSessionVod("a", "p", 0)}
VodLists == UNION {[1..n -> VodPool] : n \in 1..4}
\* The lists create_session accepts.
SoundLists == UNION {[1..n -> SoundVods] : n \in 2..3}

\* A validate that lets a fourth vod through.
validate_four(session) ==
    LET vods == session.vods
        bad == {i \in 1..Len(vods) :
                   vods[i].path = "" \/ vods[i].vod_id = "" \/ vods[i].duration <= 0}
    IN IF Len(vods) < 2 \/ Len(vods) > 4 \/ bad # {}
       THEN [ok |-> FALSE, error |-> "Session must have 2-3 VODs", index |-> 0 - 1]
       ELSE [ok |-> TRUE, error |-> "", index |-> 0 - 1]

\* A validate that reports the last vod at fault instead of the first.
validate_last(session) ==
    LET vods == session.vods
        bad == {i \in 1..Len(vods) :
                   vods[i].path = "" \/ vods[i].vod_id = "" \/ vods[i].duration <= 0}
    IN IF Len(vods) < 2 \/ Len(vods) > 3
       THEN [ok |-> FALSE, error |-> "Session must have 2-3 VODs", index |-> 0 - 1]
       ELSE IF bad = {}
       THEN [ok |-> TRUE, error |-> "", index |-> 0 - 1]
       ELSE LET i == CHOOSE k \in bad : \A m \in bad : k >= m
            IN IF vods[i].path = "" \/ vods[i].vod_id = ""
               THEN [ok |-> FALSE, error |-> "missing path or ID", index |-> i - 1]
               ELSE [ok |-> FALSE, error |-> "has invalid duration", index |-> i - 1]

\* MultiVodSession.validate
validate(session) ==
    LET vods == session.vods
        bad == {i \in 1..Len(vods) :
                   vods[i].path = "" \/ vods[i].vod_id = "" \/ vods[i].duration <= 0}
    IN IF Len(vods) < 2 \/ Len(vods) > 3
       THEN [ok |-> FALSE, error |-> "Session must have 2-3 VODs", index |-> 0 - 1]
       ELSE IF bad = {}
       THEN [ok |-> TRUE, error |-> "", index |-> 0 - 1]
       ELSE LET i == CHOOSE k \in bad : \A m \in bad : k <= m
            IN IF vods[i].path = "" \/ vods[i].vod_id = ""
               THEN [ok |-> FALSE, error |-> "missing path or ID", index |-> i - 1]
               ELSE [ok |-> FALSE, error |-> "has invalid duration", index |-> i - 1]

\* MultiVodSessionManager.create_session: the count check, then validate.
create_session(vods) ==
    IF Len(vods) < 2 \/ Len(vods) > 3
    THEN [ok |-> FALSE, error |-> "Session must have 2-3 VODs", index |-> 0 - 1]
    ELSE validate(MultiVodSession(vods))

\* to_dict / from_dict: the document written by save_session and the object
\* load_session builds from it carry the same fields, entry by entry.
EntryToDict(h) ==
    [timestamp |-> h.timestamp, old_offset |-> h.old_offset, new_offset |-> h.new_offset,
     source |-> h.source, confidence |-> h.confidence, changed_by |-> h.changed_by]
VodToDict(v) ==
    [vod_id |-> v.vod_id, path |-> v.path, duration |-> v.duration, offset |-> v.offset,
     offset_confidence |-> v.offset_confidence, offset_source |-> v.offset_source,
     offset_history |-> [k \in 1..Len(v.offset_history) |-> EntryToDict(v.offset_history[k])],
     current_time |-> v.current_time, playback_state |-> v.playback_state]
to_dict(session) ==
    [vods |-> [i \in 1..Len(session.vods) |-> VodToDict(session.vods[i])],
     global_time |-> session.global_time,
     global_playback_state |-> session.global_playback_state]
from_dict(data) == to_dict(data)

NoFileOnDisk == <<>>
save_session(session) == <<to_dict(session)>>
SessionExists == disk # NoFileOnDisk
load_session == from_dict(disk[1])

\* MultiVodSession.get_vod_by_id: the first vod carrying the id (0: None).
get_vod_by_id(session, vod_id) ==
    LET hits == {i \in 1..Len(session.vods) : session.vods[i].vod_id = vod_id}
    IN IF hits = {} THEN 0 ELSE CHOOSE i \in hits : \A k \in hits : i <= k

VodOffsetHistoryEntry(now, old_offset, new_offset, source, confidence) ==
    [timestamp |-> now, old_offset |-> old_offset, new_offset |-> new_offset,
     source |-> source, confidence |-> confidence, changed_by |-> "system"]

\* An update that sets the offset before it records the entry.
SetOffsetFirst(vod, new_offset, source, confidence, now) ==
    [vod EXCEPT !.offset_history =
                    Append(@, VodOffsetHistoryEntry(now, new_offset, new_offset, source, confidence)),
                !.offset = new_offset,
                !.offset_source = source,
                !.offset_confidence = IF confidence # NoConfidence THEN confidence ELSE 100]

\* An update that records the entry and leaves the offset as it was.
SetOffsetKeeps(vod, new_offset, source, confidence, now) ==
    [vod EXCEPT !.offset_history =
                    Append(@, VodOffsetHistoryEntry(now, vod.offset, new_offset, source, confidence)),
                !.offset_source = source,
                !.offset_confidence = IF confidence # NoConfidence THEN confidence ELSE 100]

\* The body shared by update_offset (lines 163-181) and the loop of
\* batch_update_offsets (lines 213-228): record the entry, then set the offset.
SetOffset(vod, new_offset, source, confidence, now) ==
    [vod EXCEPT !.offset_history =
                    Append(@, VodOffsetHistoryEntry(now, vod.offset, new_offset, source, confidence)),
                !.offset = new_offset,
                !.offset_source = source,
                !.offset_confidence = IF confidence # NoConfidence THEN confidence ELSE 100]

\* MultiVodSessionManager.update_offset on the loaded session.
update_offset(session, vod_id, new_offset, source, confidence, now) ==
    LET i == get_vod_by_id(session, vod_id)
    IN IF i = 0
       THEN [found |-> FALSE, session |-> session]
       ELSE [found |-> TRUE,
             session |-> [session EXCEPT !.vods[i] =
                             SetOffset(@, new_offset, source, confidence, now)]]

\* A batch without the validation pass: unknown ids are skipped by the loop
\* and the known ones are updated and saved.
batch_update_known(session, offsets, source, confidence, now) ==
    [found |-> TRUE,
     session |-> [session EXCEPT !.vods =
         [i \in 1..Len(session.vods) |->
             IF \E id \in DOMAIN offsets : get_vod_by_id(session, id) = i
             THEN LET id == session.vods[i].vod_id
                  IN [session.vods[i] EXCEPT
                         !.offset_history =
                             Append(@, VodOffsetHistoryEntry(now, session.vods[i].offset,
                                                             offsets[id], source, confidence)),
                         !.offset = offsets[id],
                         !.offset_source = source,
                         !.offset_confidence =
                             IF confidence # NoConfidence THEN confidence ELSE 100]
             ELSE session.vods[i]]]]

\* MultiVodSessionManager.batch_update_offsets on the loaded session; offsets
\* is the dict of the request (its keys are distinct, so each key reaches a
\* different vod and the order of the loop does not matter).
batch_update_offsets(session, offsets, source, confidence, now) ==
    IF \E id \in DOMAIN offsets : get_vod_by_id(session, id) = 0
    THEN [found |-> FALSE, session |-> session]
    ELSE [found |-> TRUE,
          session |-> [session EXCEPT !.vods =
              [i \in 1..Len(session.vods) |->
                  IF \E id \in DOMAIN offsets : get_vod_by_id(session, id) = i
                  THEN LET id == session.vods[i].vod_id
                       IN SetOffset(session.vods[i], offsets[id], source, confidence, now)
                  ELSE session.vods[i]]]]

\* A global seek that adds the offset instead of subtracting it.
global_seek_added(session, timestamp) ==
    [session EXCEPT !.global_time = timestamp,
                    !.global_playback_state = "seeking",
                    !.vods = [i \in 1..Len(session.vods) |->
                                 [session.vods[i] EXCEPT
                                     !.current_time =
                                         IF timestamp + session.vods[i].offset < 0 THEN 0
                                         ELSE IF timestamp + session.vods[i].offset
                                                    > session.vods[i].duration
                                         THEN session.vods[i].duration
                                         ELSE timestamp + session.vods[i].offset,
                                     !.playback_state = "seeking"]]]

\* multi_vod_api.global_seek, lines 202-216, on the loaded session.
global_seek(session, timestamp) ==
    [session EXCEPT !.global_time = timestamp,
                    !.global_playback_state = "seeking",
                    !.vods = [i \in 1..Len(session.vods) |->
                                 [session.vods[i] EXCEPT
                                     !.current_time =
                                         Max(0, Min(timestamp - session.vods[i].offset,
                                                    session.vods[i].duration)),
                                     !.playback_state = "seeking"]]]

\* A seek that takes the requested time as it is.
seek_vod_unclamped(session, vod_id, timestamp) ==
    LET i == get_vod_by_id(session, vod_id)
    IN IF i = 0
       THEN [found |-> FALSE, session |-> session]
       ELSE [found |-> TRUE,
             session |-> [session EXCEPT !.vods[i].current_time = timestamp,
                                         !.vods[i].playback_state = "seeking",
                                         !.global_time = timestamp + session.vods[i].offset]]

\* multi_vod_api.seek_vod, lines 254-270, on the loaded session.
seek_vod(session, vod_id, timestamp) ==
    LET i == get_vod_by_id(session, vod_id)
        clamped == Max(0, Min(timestamp, session.vods[i].duration))
    IN IF i = 0
       THEN [found |-> FALSE, session |-> session]
       ELSE [found |-> TRUE,
             session |-> [session EXCEPT !.vods[i].current_time = clamped,
                                         !.vods[i].playback_state = "seeking",
                                         !.global_time = clamped + session.vods[i].offset]]

\* Lines 266-283 of get_offset_history: the entries of the vods in session
\* order, each vod's in the order they were appended, from vod i on.  of and
\* nth are the place of the vod in the session and of the entry in the vod's
\* history; the reply does not carry them.
RECURSIVE HistoryRows(_, _, _)
HistoryRows(vods, i, vod_id) ==
    IF i > Len(vods) THEN <<>>
    ELSE LET vod == vods[i]
             rows == IF vod_id # "" /\ vod.vod_id # vod_id THEN <<>>
                     ELSE [k \in 1..Len(vod.offset_history) |->
                              [timestamp |-> vod.offset_history[k].timestamp,
                               vod_id |-> vod.vod_id,
                               old_offset |-> vod.offset_history[k].old_offset,
                               new_offset |-> vod.offset_history[k].new_offset,
                               source |-> vod.offset_history[k].source,
                               confidence |-> vod.offset_history[k].confidence,
                               changed_by |-> vod.offset_history[k].changed_by,
                               of |-> i, nth |-> k]]
         IN rows \o HistoryRows(vods, i + 1, vod_id)

\* sorted(entries, key=timestamp, reverse=True): a stable sort, so rows with
\* the same timestamp keep the order they had.
RECURSIVE InsertByTimestamp(_, _)
InsertByTimestamp(sorted, row) ==
    IF sorted = <<>> THEN <<row>>
    ELSE IF Head(sorted).timestamp >= row.timestamp
         THEN <<Head(sorted)>> \o InsertByTimestamp(Tail(sorted), row)
         ELSE <<row>> \o sorted
RECURSIVE SortedByTimestamp(_)
SortedByTimestamp(rows) ==
    IF rows = <<>> THEN <<>>
    ELSE InsertByTimestamp(SortedByTimestamp(SubSeq(rows, 1, Len(rows) - 1)), rows[Len(rows)])

\* MultiVodSessionManager.get_offset_history on the loaded session; vod_id ""
\* selects every vod.
get_offset_history(session, vod_id) == SortedByTimestamp(HistoryRows(session.vods, 1, vod_id))

\* MultiVodSessionManager.update_playback_state on the loaded session.
update_playback_state(session, global_time, playback_state) ==
    [session EXCEPT !.global_time = global_time, !.global_playback_state = playback_state]

Callers == {"c1", "c2"}
IdleReq == [busy |-> FALSE, op |-> "", session |-> MultiVodSession(<<>>)]

RECURSIVE HistoryEntries(_)
HistoryEntries(vods) ==
    IF vods = <<>> THEN 0 ELSE Len(Head(vods).offset_history) + HistoryEntries(Tail(vods))
\* The stored histories stay within the bound after the call.
HistoryFits == SessionExists' => HistoryEntries(disk'[1].vods) <= MaxHistory
RoomFor(changes) == SessionExists => HistoryEntries(disk[1].vods) + changes <= MaxHistory

NoCall == [op |-> "none", result |-> "", n |-> 0, empty_path |-> {}, empty_id |-> {},
           bad_duration |-> {}, index |-> 0 - 1, error |-> "", offsets |-> <<>>,
           vod_id |-> "", t |-> 0, rows |-> <<>>]

InitSess ==
    /\ disk = NoFileOnDisk
    /\ clock = 0
    /\ lastCall = NoCall
    /\ req = [c \in Callers |-> IdleReq]

\* ---- one request at a time: every handler runs from its load to its save ----

Tick ==
    /\ clock < MaxClock
    /\ clock' = clock + 1
    /\ UNCHANGED <<disk, lastCall, req>>
    /\ UNCHANGED <<scanVars, mergeVars>>

DescribeVods(call, vods) ==
    [call EXCEPT !.n = Len(vods),
                 !.empty_path = {i \in 1..Len(vods) : vods[i].path = ""},
                 !.empty_id = {i \in 1..Len(vods) : vods[i].vod_id = ""},
                 !.bad_duration = {i \in 1..Len(vods) : vods[i].duration <= 0}]

\* MultiVodSessionManager.create_session(vods): ValueError, or the session saved.
CreateSession(vods) ==
    /\ ~SessionExists
    /\ LET r == create_session(vods)
       IN /\ disk' = IF r.ok THEN save_session(MultiVodSession(vods)) ELSE disk
          /\ lastCall' = [DescribeVods(NoCall, vods) EXCEPT
                              !.op = "create_session",
                              !.result = IF r.ok THEN "ok" ELSE "error",
                              !.index = r.index, !.error = r.error]
    /\ UNCHANGED <<clock, req>>
    /\ UNCHANGED <<scanVars, mergeVars>>

\* MultiVodSession(vods=vods).validate(), called on its own.  It reads
\* nothing but its argument, so it is exercised while no session is stored.
ValidateSession(vods) ==
    /\ ~SessionExists
    /\ LET r == validate(MultiVodSession(vods))
       IN lastCall' = [DescribeVods(NoCall, vods) EXCEPT
                          !.op = "validate",
                          !.result = IF r.ok THEN "ok" ELSE "error",
                          !.index = r.index, !.error = r.error]
    /\ UNCHANGED <<disk, clock, req>>
    /\ UNCHANGED <<scanVars, mergeVars>>

\* MultiVodSessionManager.delete_session
DeleteSession ==
    /\ SessionExists
    /\ disk' = NoFileOnDisk
    /\ lastCall' = [NoCall EXCEPT !.op = "delete_session", !.result = "ok"]
    /\ UNCHANGED <<clock, req>>
    /\ UNCHANGED <<scanVars, mergeVars>>

\* MultiVodSessionManager.update_offset(session_id, vod_id, new_offset, source, confidence)
UpdateOffset(vod_id, new_offset, source, confidence) ==
    /\ LET r == IF SessionExists
                THEN update_offset(load_session, vod_id, new_offset, source, confidence, clock)
                ELSE [found |-> FALSE, session |-> <<>>]
       IN /\ disk' = IF r.found THEN save_session(r.session) ELSE disk
          /\ lastCall' = [NoCall EXCEPT !.op = "update_offset",
                                        !.result = IF r.found THEN "ok" ELSE "none",
                                        !.vod_id = vod_id,
                                        !.offsets = [id \in {vod_id} |-> new_offset]]
    /\ HistoryFits
    /\ UNCHANGED <<clock, req>>
    /\ UNCHANGED <<scanVars, mergeVars>>

\* MultiVodSessionManager.batch_update_offsets(session_id, offsets, source, confidence)
BatchUpdateOffsets(offsets, source, confidence) ==
    /\ LET r == IF SessionExists
                THEN batch_update_offsets(load_session, offsets, source, confidence, clock)
                ELSE [found |-> FALSE, session |-> <<>>]
       IN /\ disk' = IF r.found THEN save_session(r.session) ELSE disk
          /\ lastCall' = [NoCall EXCEPT !.op = "batch_update_offsets",
                                        !.result = IF r.found THEN "ok" ELSE "none",
                                        !.offsets = offsets]
    /\ HistoryFits
    /\ UNCHANGED <<clock, req>>
    /\ UNCHANGED <<scanVars, mergeVars>>

\* PUT /<session_id>/global-seek with {"timestamp": t}
GlobalSeek(t) ==
    /\ LET result == IF t < 0 THEN "bad_request"
                     ELSE IF ~SessionExists THEN "not_found" ELSE "ok"
       IN /\ disk' = IF result = "ok" THEN save_session(global_seek(load_session, t)) ELSE disk
          /\ lastCall' = [NoCall EXCEPT !.op = "global_seek", !.result = result, !.t = t]
    /\ UNCHANGED <<clock, req>>
    /\ UNCHANGED <<scanVars, mergeVars>>

\* PUT /<session_id>/vods/<vod_id>/seek with {"timestamp": t}
SeekVod(vod_id, t) ==
    /\ LET r == IF t >= 0 /\ SessionExists
                THEN seek_vod(load_session, vod_id, t)
                ELSE [found |-> FALSE, session |-> <<>>]
           result == IF t < 0 THEN "bad_request"
                     ELSE IF ~SessionExists \/ ~r.found THEN "not_found" ELSE "ok"
       IN /\ disk' = IF result = "ok" THEN save_session(r.session) ELSE disk
          /\ lastCall' = [NoCall EXCEPT !.op = "seek_vod", !.result = result,
                                        !.vod_id = vod_id, !.t = t]
    /\ UNCHANGED <<clock, req>>
    /\ UNCHANGED <<scanVars, mergeVars>>

\* PUT /<session_id>/offsets with {"offsets", "source", "confidence"}: the
\* two checks of the endpoint, then batch_update_offsets.
ApiUpdateOffsets(offsets, source, confidence) ==
    /\ LET refused == offsets = <<>> \/ (source = "timer_ocr" /\ confidence = NoConfidence)
           r == IF ~refused /\ SessionExists
                THEN batch_update_offsets(load_session, offsets, source, confidence, clock)
                ELSE [found |-> FALSE, session |-> <<>>]
       IN /\ disk' = IF r.found THEN save_session(r.session) ELSE disk
          /\ lastCall' = [NoCall EXCEPT !.op = "update_offsets",
                                        !.result = IF refused THEN "bad_request"
                                                   ELSE IF r.found THEN "ok" ELSE "not_found",
                                        !.offsets = offsets]
    /\ HistoryFits
    /\ UNCHANGED <<clock, req>>
    /\ UNCHANGED <<scanVars, mergeVars>>

\* MultiVodSessionManager.update_playback_state(session_id, global_time, playback_state)
UpdatePlaybackState(global_time, playback_state) ==
    /\ disk' = IF SessionExists
               THEN save_session(update_playback_state(load_session, global_time, playback_state))
               ELSE disk
    /\ lastCall' = [NoCall EXCEPT !.op = "update_playback_state",
                                  !.result = IF SessionExists THEN "ok" ELSE "none",
                                  !.t = global_time]
    /\ UNCHANGED <<clock, req>>
    /\ UNCHANGED <<scanVars, mergeVars>>

\* MultiVodSessionManager.get_offset_history(session_id, vod_id)
GetOffsetHistory(vod_id) ==
    /\ lastCall' = [NoCall EXCEPT !.op = "get_offset_history",
                                  !.result = IF SessionExists THEN "ok" ELSE "none",
                                  !.vod_id = vod_id,
                                  !.rows = IF SessionExists
                                           THEN get_offset_history(load_session, vod_id)
                                           ELSE <<>>]
    /\ UNCHANGED <<disk, clock, req>>
    /\ UNCHANGED <<scanVars, mergeVars>>

OffsetMaps == UNION {[ids -> Offsets] : ids \in SUBSET InputIds}

\* Creation: every list a caller can offer, to create_session and to
\* validate, and the sessions that come of it updated and deleted.
NextCreate ==
    \/ \E vods \in VodLists : CreateSession(vods)
    \/ \E vods \in VodLists : ValidateSession(vods)
    \/ DeleteSession
    \/ \E id \in InputIds, o \in Offsets : UpdateOffset(id, o, "manual", NoConfidence)
    \/ \E m \in OffsetMaps : BatchUpdateOffsets(m, "manual", NoConfidence)

\* Offsets and histories: sessions created, deleted, and updated one vod at a
\* time and in batches, by hand and from the timer.
NextOffsets ==
    \/ \E vods \in SoundLists : CreateSession(vods)
    \/ DeleteSession
    \/ \E id \in InputIds, o \in Offsets, by \in Provenances :
          UpdateOffset(id, o, by[1], by[2])
    \/ \E m \in OffsetMaps, by \in Provenances : BatchUpdateOffsets(m, by[1], by[2])

\* Histories over time: one session updated at different times of the clock.
NextHistory ==
    \/ Tick
    \/ \E vods \in SoundLists : CreateSession(vods)
    \/ \E id \in InputIds, o \in Offsets, by \in Provenances :
          UpdateOffset(id, o, by[1], by[2])
    \/ \E m \in OffsetMaps : BatchUpdateOffsets(m, "manual", NoConfidence)
    \/ \E id \in InputIds \cup {""} : GetOffsetHistory(id)

\* Provenance: the offsets of one session set to one value through the
\* endpoint and through the manager, with and without a confidence.
LateMaps == UNION {[ids -> {3}] : ids \in SUBSET InputIds}
NextProvenance ==
    \/ \E vods \in SoundLists : CreateSession(vods)
    \/ \E id \in InputIds, by \in AnyProvenances : UpdateOffset(id, 3, by[1], by[2])
    \/ \E m \in LateMaps, by \in AnyProvenances : BatchUpdateOffsets(m, by[1], by[2])
    \/ \E m \in LateMaps, by \in AnyProvenances : ApiUpdateOffsets(m, by[1], by[2])

\* Playback: one session whose offsets are set by hand, sought from the
\* start of a vod and beyond its end, and told the time the player is at.
PlayTimes == {0, 5}
NextPlayback ==
    \/ \E vods \in SoundLists : CreateSession(vods)
    \/ \E id \in InputIds, o \in Offsets : UpdateOffset(id, o, "manual", NoConfidence)
    \/ \E t \in PlayTimes : GlobalSeek(t)
    \/ \E id \in InputIds, t \in PlayTimes : SeekVod(id, t)
    \/ \E t \in PlayTimes, st \in {"playing", "paused"} : UpdatePlaybackState(t, st)

\* Seeking: sessions whose offsets were set by hand, sought globally and per vod.
NextSeek ==
    \/ \E vods \in SoundLists : CreateSession(vods)
    \/ \E id \in InputIds, o \in Offsets : UpdateOffset(id, o, "manual", NoConfidence)
    \/ \E t \in SeekTimes : GlobalSeek(t)
    \/ \E id \in InputIds, t \in SeekTimes : SeekVod(id, t)

\* ---- concurrent callers: a handler loads the document, changes its copy,
\* ---- and saves it; another handler may load or save in between.

Begin(c, op, session) ==
    /\ req' = [req EXCEPT ![c] = [busy |-> TRUE, op |-> op, session |-> session]]
    /\ UNCHANGED <<disk, clock, lastCall>>
    /\ UNCHANGED <<scanVars, mergeVars>>

BeginUpdateOffset(c, vod_id, new_offset) ==
    /\ SessionExists /\ ~req[c].busy /\ RoomFor(1)
    /\ LET r == update_offset(load_session, vod_id, new_offset, "manual", NoConfidence, clock)
       IN r.found /\ Begin(c, "update_offset", r.session)

BeginBatchUpdateOffsets(c, offsets) ==
    /\ SessionExists /\ ~req[c].busy /\ RoomFor(Cardinality(DOMAIN offsets))
    /\ LET r == batch_update_offsets(load_session, offsets, "manual", NoConfidence, clock)
       IN r.found /\ Begin(c, "batch_update_offsets", r.session)

BeginGlobalSeek(c, t) ==
    /\ SessionExists /\ ~req[c].busy /\ t >= 0
    /\ Begin(c, "global_seek", global_seek(load_session, t))

BeginSeekVod(c, vod_id, t) ==
    /\ SessionExists /\ ~req[c].busy /\ t >= 0
    /\ LET r == seek_vod(load_session, vod_id, t)
       IN r.found /\ Begin(c, "seek_vod", r.session)

\* MultiVodSessionManager.save_session at the end of the handler.
SaveSession(c) ==
    /\ req[c].busy
    /\ disk' = save_session(req[c].session)
    /\ req' = [req EXCEPT ![c] = IdleReq]
    /\ UNCHANGED <<clock, lastCall>>
    /\ UNCHANGED <<scanVars, mergeVars>>

\* Two callers working on one session of two vods; each handler is given one
\* value per argument, which is enough for two requests to overlap.
RaceVods == <<MultiVodSessionVod("a", "p", 3), MultiVodSessionVod("b", "p", 3)>>
RaceMaps == {[id \in ids |-> 0 - 2] : ids \in (SUBSET VodIds) \ {{}}}

NextRace ==
    \/ CreateSession(RaceVods)
    \/ \E c \in Callers, id \in VodIds : BeginUpdateOffset(c, id, 3)
    \/ \E c \in Callers, m \in RaceMaps : BeginBatchUpdateOffsets(c, m)
    \/ \E c \in Callers : BeginGlobalSeek(c, 2)
    \/ \E c \in Callers, id \in VodIds : BeginSeekVod(c, id, 5)
    \/ \E c \in Callers : SaveSession(c)

(***************************************************************************)
(* Live detector: detector.py                                              *)
(***************************************************************************)
MaxNow == 9             \* readings of time.time() after the detector was built
DetCooldown == 3        \* cooldown_seconds
\* time.time() when the detector is built: further from the initial
\* _last_trigger 0.0 than any cooldown.
DetEpoch == 10
DetTimes == DetEpoch..(DetEpoch + MaxNow)

\* EventDetector.__init__ followed by no call.
DetAtRest == [last_trigger |-> 0, now |-> DetEpoch, lines |-> <<>>,
              matched |-> FALSE, matched_line |-> <<>>]

\* A detector that restarts the cooldown on every call it lets through.
detect_restarts(d, lines, now) ==
    IF now - d.last_trigger < DetCooldown
    THEN [d EXCEPT !.now = now, !.lines = lines, !.matched = FALSE, !.matched_line = <<>>]
    ELSE LET line == detect_match(lines, Keywords)
         IN [last_trigger |-> now, now |-> now, lines |-> lines,
             matched |-> line # <<>>, matched_line |-> line]

\* EventDetector.detect(lines) called when time.time() reads now.
detect(d, lines, now) ==
    IF now - d.last_trigger < DetCooldown
    THEN [d EXCEPT !.now = now, !.lines = lines, !.matched = FALSE, !.matched_line = <<>>]
    ELSE LET line == detect_match(lines, Keywords)
         IN IF line # <<>>
            THEN [last_trigger |-> now, now |-> now, lines |-> lines,
                  matched |-> TRUE, matched_line |-> line]
            ELSE [d EXCEPT !.now = now, !.lines = lines,
                           !.matched = FALSE, !.matched_line = <<>>]

Detect(lines, now) ==
    /\ now >= det.now
    /\ det' = detect(det, lines, now)
    /\ UNCHANGED <<scanVars, sessVars, mw, sp, tm, bk, dl, fleet>>

NextDetect == \E lines \in FrameLines, now \in DetTimes : Detect(lines, now)

(***************************************************************************)
(* Timer reading and sync: ocr_timer_detector.py, routes/ocr_sync.py       *)
(***************************************************************************)
MaxTokens == 4          \* text blocks the recognition engine returns for the region

\* A text is a sequence of characters.
Digits == {"0", "1", "2", "3", "4", "5", "6", "7", "8", "9"}
RingDigits == Digits \ {"0"}
DigitValue(c) ==
    CASE c = "0" -> 0 [] c = "1" -> 1 [] c = "2" -> 2 [] c = "3" -> 3 [] c = "4" -> 4
      [] c = "5" -> 5 [] c = "6" -> 6 [] c = "7" -> 7 [] c = "8" -> 8 [] c = "9" -> 9

\* int(part): the value of a digit string; anything else is a ValueError.
IsNumber(part) == part # <<>> /\ \A k \in 1..Len(part) : part[k] \in Digits
RECURSIVE ToInt(_)
ToInt(part) ==
    IF part = <<>> THEN 0
    ELSE 10 * ToInt(SubSeq(part, 1, Len(part) - 1)) + DigitValue(part[Len(part)])

\* re.sub(r'\s+', ' ', text.strip()): no space at either end, runs of spaces
\* become one space.
RECURSIVE CollapseSpaces(_)
CollapseSpaces(text) ==
    IF text = <<>> THEN <<>>
    ELSE IF Head(text) = " " /\ (Len(text) = 1 \/ text[2] = " ")
         THEN CollapseSpaces(Tail(text))
         ELSE <<Head(text)>> \o CollapseSpaces(Tail(text))
NormalizeSpaces(text) ==
    LET t == CollapseSpaces(text)
    IN IF t # <<>> /\ Head(t) = " " THEN Tail(t) ELSE t

IsDigitAt(text, i) == i \in 1..Len(text) /\ text[i] \in Digits
IsCharAt(text, i, c) == i \in 1..Len(text) /\ text[i] = c

\* (\d{1,2}):(\d{2})(?!\d) tried at position j: the number of minute digits
\* of the match, 0 when there is none.  Two digits are taken when they are
\* there; giving one back never helps, the next character being a digit.
MinuteDigits(text, j) ==
    IF /\ IsDigitAt(text, j) /\ IsDigitAt(text, j + 1) /\ IsCharAt(text, j + 2, ":")
       /\ IsDigitAt(text, j + 3) /\ IsDigitAt(text, j + 4) /\ ~IsDigitAt(text, j + 5)
    THEN 2
    ELSE IF /\ IsDigitAt(text, j) /\ IsCharAt(text, j + 1, ":")
            /\ IsDigitAt(text, j + 2) /\ IsDigitAt(text, j + 3) /\ ~IsDigitAt(text, j + 4)
    THEN 1
    ELSE 0
MinutesAt(text, j) == SubSeq(text, j, j + MinuteDigits(text, j) - 1)
SecondsAt(text, j) == SubSeq(text, j + MinuteDigits(text, j) + 1, j + MinuteDigits(text, j) + 2)

\* \s* from position j: the first position that holds no space.
SkipSpaces(text, j) ==
    CHOOSE k \in j..(Len(text) + 1) :
        /\ ~IsCharAt(text, k, " ")
        /\ \A m \in j..(k - 1) : IsCharAt(text, m, " ")

\* (?<!\d)([1-9])(?!\d)\s*(\d{1,2}):(\d{2})(?!\d) matches at position i.
RingTimerAt(text, i) ==
    /\ i \in 1..Len(text) /\ text[i] \in RingDigits
    /\ ~IsDigitAt(text, i - 1) /\ ~IsDigitAt(text, i + 1)
    /\ MinuteDigits(text, SkipSpaces(text, i + 1)) > 0
\* (?<!\d)(\d{1,2}):(\d{2})(?!\d) matches at position j.
TimerOnlyAt(text, j) == ~IsDigitAt(text, j - 1) /\ MinuteDigits(text, j) > 0

\* re.search: the leftmost position with a match, 0 when there is none.
FirstRingTimer(text) ==
    IF \E i \in 1..Len(text) : RingTimerAt(text, i)
    THEN CHOOSE i \in 1..Len(text) :
            RingTimerAt(text, i) /\ \A k \in 1..(i - 1) : ~RingTimerAt(text, k)
    ELSE 0
FirstTimerOnly(text) ==
    IF \E j \in 1..Len(text) : TimerOnlyAt(text, j)
    THEN CHOOSE j \in 1..Len(text) :
            TimerOnlyAt(text, j) /\ \A k \in 1..(j - 1) : ~TimerOnlyAt(text, k)
    ELSE 0

NoTimer == <<>>         \* None
InRange(m, sec) == ToInt(m) < 60 /\ ToInt(sec) < 60

\* A parser whose fallback drops the leading zero of the minutes.
parse_apex_timer_short(text) ==
    LET normalized == NormalizeSpaces(text)
        i == FirstRingTimer(normalized)
        at == SkipSpaces(normalized, i + 1)
        j == FirstTimerOnly(normalized)
        m == MinutesAt(normalized, j)
    IN IF i # 0 /\ InRange(MinutesAt(normalized, at), SecondsAt(normalized, at))
       THEN <<normalized[i], ":">> \o MinutesAt(normalized, at)
               \o <<":">> \o SecondsAt(normalized, at)
       ELSE IF j # 0 /\ InRange(m, SecondsAt(normalized, j))
       THEN (IF Len(m) = 2 /\ m[1] = "0" THEN <<m[2]>> ELSE m)
               \o <<":">> \o SecondsAt(normalized, j)
       ELSE NoTimer

\* ApexLegendTimerDetector.parse_apex_timer
parse_apex_timer(text) ==
    LET normalized == NormalizeSpaces(text)
        i == FirstRingTimer(normalized)
        at == SkipSpaces(normalized, i + 1)
        j == FirstTimerOnly(normalized)
    IN IF i # 0 /\ InRange(MinutesAt(normalized, at), SecondsAt(normalized, at))
       THEN <<normalized[i], ":">> \o MinutesAt(normalized, at)
               \o <<":">> \o SecondsAt(normalized, at)
       ELSE IF j # 0 /\ InRange(MinutesAt(normalized, j), SecondsAt(normalized, j))
       THEN MinutesAt(normalized, j) \o <<":">> \o SecondsAt(normalized, j)
       ELSE NoTimer

\* timer_str.split(":")
RECURSIVE SplitColon(_)
SplitColon(str) ==
    IF \A k \in 1..Len(str) : str[k] # ":" THEN <<str>>
    ELSE LET k == CHOOSE n \in 1..Len(str) : str[n] = ":" /\ \A m \in 1..(n - 1) : str[m] # ":"
         IN <<SubSeq(str, 1, k - 1)>> \o SplitColon(SubSeq(str, k + 1, Len(str)))

\* timer_to_seconds: total = total * 60 + int(part) over the parts.
RECURSIVE TotalOf(_)
TotalOf(parts) ==
    IF parts = <<>> THEN 0
    ELSE TotalOf(SubSeq(parts, 1, Len(parts) - 1)) * 60 + ToInt(parts[Len(parts)])
timer_to_seconds(timer_str) == TotalOf(SplitColon(timer_str))
Parses(timer_str) == \A k \in 1..Len(SplitColon(timer_str)) : IsNumber(SplitColon(timer_str)[k])

Abs(x) == IF x < 0 THEN 0 - x ELSE x

\* A comparison that matches timers up to three seconds apart.
compare_timers_wide(primary_timer, secondary_timer) ==
    IF primary_timer = NoTimer \/ secondary_timer = NoTimer
       \/ ~Parses(primary_timer) \/ ~Parses(secondary_timer)
    THEN [timers_match |-> FALSE, has_offset |-> FALSE, sync_offset_ms |-> 0]
    ELSE LET primary_seconds == timer_to_seconds(primary_timer)
             secondary_seconds == timer_to_seconds(secondary_timer)
         IN IF Abs(primary_seconds - secondary_seconds) <= 3
            THEN [timers_match |-> TRUE, has_offset |-> TRUE,
                  sync_offset_ms |-> (secondary_seconds - primary_seconds) * 1000]
            ELSE [timers_match |-> FALSE, has_offset |-> FALSE, sync_offset_ms |-> 0]

\* sync_vods, lines 149-173: timers_match and sync_offset from the two timers
\* (has_offset FALSE: sync_offset_ms is None).
compare_timers(primary_timer, secondary_timer) ==
    IF primary_timer = NoTimer \/ secondary_timer = NoTimer
       \/ ~Parses(primary_timer) \/ ~Parses(secondary_timer)
    THEN [timers_match |-> FALSE, has_offset |-> FALSE, sync_offset_ms |-> 0]
    ELSE LET primary_seconds == timer_to_seconds(primary_timer)
             secondary_seconds == timer_to_seconds(secondary_timer)
         IN IF Abs(primary_seconds - secondary_seconds) <= 2
            THEN [timers_match |-> TRUE, has_offset |-> TRUE,
                  sync_offset_ms |-> (secondary_seconds - primary_seconds) * 1000]
            ELSE [timers_match |-> FALSE, has_offset |-> FALSE, sync_offset_ms |-> 0]

\* Text blocks of the timer region: nothing, ring digits, countdowns (one
\* with minutes out of range, one with a single minute digit), noise.
Tokens == { <<>>, <<"1">>, <<"3">>, <<"0", "0", ":", "2", "7">>,
            <<"7", "5", ":", "1", "0">>, <<"5", ":", "3", "0">>, <<"x">> }
\* " ".join(blocks)
RECURSIVE Join(_)
Join(blocks) ==
    IF blocks = <<>> THEN <<>>
    ELSE IF Len(blocks) = 1 THEN blocks[1]
    ELSE blocks[1] \o <<" ">> \o Join(Tail(blocks))
TokenLists == UNION {[1..n -> Tokens] : n \in 1..MaxTokens}

\* What the region reads in the two videos of a sync request: no ring or
\* ring 1 or 2, and a countdown.
Countdowns == { <<"1", "4", ":", "3", "2">>, <<"1", "4", ":", "3", "3">>,
                <<"1", "4", ":", "3", "5">>, <<"5", "9", ":", "5", "9">>,
                <<"0", "0", ":", "0", "0">> }
Readings == {<<"x">>} \cup Countdowns
            \cup {<<r, " ">> \o c : r \in {"1", "2"}, c \in Countdowns}

TimerAtRest == [op |-> "none", text |-> <<>>, timer |-> NoTimer,
                primary |-> <<>>, secondary |-> <<>>,
                primary_timer |-> NoTimer, secondary_timer |-> NoTimer,
                timers_match |-> FALSE, has_offset |-> FALSE, sync_offset_ms |-> 0]

\* parse_apex_timer(" ".join(blocks))
ParseApexTimer ==
    /\ tm.op = "frame"
    /\ tm' = [tm EXCEPT !.op = "parsed", !.timer = parse_apex_timer(tm.text)]
    /\ UNCHANGED <<scanVars, sessVars, mw, sp, det, bk, dl, fleet>>

\* POST /sync-vods for two videos whose timer regions read primary and
\* secondary.  Every reading is one text block, which parse_apex_timer parses
\* or which holds no digits, so the per-block fallback adds nothing.
SyncVods ==
    /\ tm.op = "request"
    /\ LET primary_timer == parse_apex_timer(tm.primary)
           secondary_timer == parse_apex_timer(tm.secondary)
           r == compare_timers(primary_timer, secondary_timer)
       IN tm' = [tm EXCEPT !.op = "synced",
                                    !.primary_timer = primary_timer,
                                    !.secondary_timer = secondary_timer,
                                    !.timers_match = r.timers_match,
                                    !.has_offset = r.has_offset,
                                    !.sync_offset_ms = r.sync_offset_ms]
    /\ UNCHANGED <<scanVars, sessVars, mw, sp, det, bk, dl, fleet>>

NextTimer == ParseApexTimer \/ SyncVods

(***************************************************************************)
(* A bookmark log as bytes: bookmark_writer.py, ensure_session_file,       *)
(* load_bookmarks.  The worker appends to the file with no lock and the    *)
(* web server opens it on its own, so a load can fall between the bytes of *)
(* one write (a write that crosses a page, or one cut short by a full      *)
(* disk).                                                                  *)
(***************************************************************************)
MaxRecords == 2         \* bookmarks one worker writes to the log

Formats == {"csv", "jsonl"}
BookmarkSeconds == {7, 12}      \* seconds_since_start of the bookmarks
BookmarkEvents == {<<"k">>}     \* event_text

\* The text of a number below 100, as str() and json.dumps write it.
DigitOf(n) ==
    CASE n = 0 -> "0" [] n = 1 -> "1" [] n = 2 -> "2" [] n = 3 -> "3" [] n = 4 -> "4"
      [] n = 5 -> "5" [] n = 6 -> "6" [] n = 7 -> "7" [] n = 8 -> "8" [] n = 9 -> "9"
ToText(n) == IF n < 10 THEN <<DigitOf(n)>> ELSE <<DigitOf(n \div 10), DigitOf(n % 10)>>

\* The header row, the row of a payload and its JSON line: the timestamp
\* column is "t" and the ocr column "o".
HeaderRow == <<"H", "\n">>
CsvRow(seconds, event) == <<"t", ",">> \o ToText(seconds) \o <<",">> \o event \o <<",", "o", "\n">>
JsonLine(seconds, event) ==
    <<"{", "t", ",">> \o ToText(seconds) \o <<",">> \o event \o <<",", "o", "}", "\n">>

NoLoad == [status |-> "none", events |-> <<>>]
LogAtRest == [exists |-> FALSE, format |-> "csv", file |-> <<>>, inflight |-> <<>>,
              written |-> <<>>, rd |-> NoLoad]

\* ensure_session_file, then the BookmarkWriter is built on the file.
EnsureSessionFile(fmt) ==
    /\ bk = LogAtRest
    /\ bk' = [bk EXCEPT !.exists = TRUE, !.format = fmt,
                        !.file = IF fmt = "csv" THEN HeaderRow ELSE <<>>]
    /\ UNCHANGED <<scanVars, sessVars, mw, sp, det, tm, dl, fleet>>

\* BookmarkWriter.write: the row or line is handed to the file in one piece
\* when the handle closes.
Write(seconds, event) ==
    /\ bk.exists /\ bk.inflight = <<>>
    /\ Len(bk.written) < MaxRecords
    /\ bk' = [bk EXCEPT !.inflight = IF bk.format = "jsonl" THEN JsonLine(seconds, event)
                                                           ELSE CsvRow(seconds, event),
                        !.written = Append(@, [time |-> seconds, event |-> event])]
    /\ UNCHANGED <<scanVars, sessVars, mw, sp, det, tm, dl, fleet>>

\* The next k bytes of the write reach the file.
Cuts == 1..Len(JsonLine(12, <<"k">>))
Land(k) ==
    /\ k \in 1..Len(bk.inflight)
    /\ bk' = [bk EXCEPT !.file = @ \o SubSeq(bk.inflight, 1, k),
                        !.inflight = SubSeq(@, k + 1, Len(@))]
    /\ UNCHANGED <<scanVars, sessVars, mw, sp, det, tm, dl, fleet>>

\* str.split at a separator.
RECURSIVE SplitAt(_, _)
SplitAt(str, sep) ==
    IF \A k \in 1..Len(str) : str[k] # sep THEN <<str>>
    ELSE LET k == CHOOSE n \in 1..Len(str) : str[n] = sep /\ \A m \in 1..(n - 1) : str[m] # sep
         IN <<SubSeq(str, 1, k - 1)>> \o SplitAt(SubSeq(str, k + 1, Len(str)), sep)

\* The lines of a file that hold something, without their line ends.
RECURSIVE NonEmpty(_)
NonEmpty(lines) ==
    IF lines = <<>> THEN <<>>
    ELSE IF Head(lines) = <<>> THEN NonEmpty(Tail(lines))
    ELSE <<Head(lines)>> \o NonEmpty(Tail(lines))
LinesOf(file) == NonEmpty(SplitAt(file, "\n"))

\* json.loads(line): a line that is not a whole object is a JSONDecodeError.
JsonLoads(line) ==
    IF Len(line) >= 2 /\ line[1] = "{" /\ line[Len(line)] = "}"
    THEN SplitAt(SubSeq(line, 2, Len(line) - 1), ",")
    ELSE <<>>
\* One event of a row or object: fields are timestamp, seconds_since_start,
\* event, ocr.  float() of a missing or empty field raises; str() of a
\* missing event is "None".
EventOk(fields) == Len(fields) >= 2 /\ IsNumber(fields[2])
EventOf(fields) ==
    [time |-> ToInt(fields[2]),
     event |-> IF Len(fields) >= 3 THEN fields[3] ELSE <<"N", "o", "n", "e">>]

\* load_bookmarks on a file that exists.
load_bookmarks(file, fmt) ==
    LET lines == LinesOf(file)
        rows == IF fmt = "jsonl" THEN [k \in 1..Len(lines) |-> JsonLoads(lines[k])]
                ELSE [k \in 1..(Len(lines) - 1) |-> SplitAt(lines[k + 1], ",")]
    IN IF \A k \in 1..Len(rows) : EventOk(rows[k])
       THEN [status |-> "ok", events |-> [k \in 1..Len(rows) |-> EventOf(rows[k])]]
       ELSE [status |-> "error", events |-> <<>>]

\* The web server loads the log.
LoadBookmarks ==
    /\ bk' = [bk EXCEPT !.rd = IF bk.exists THEN load_bookmarks(bk.file, bk.format)
                                            ELSE [status |-> "not_found", events |-> <<>>]]
    /\ UNCHANGED <<scanVars, sessVars, mw, sp, det, tm, dl, fleet>>

NextLog ==
    \/ \E fmt \in Formats : EnsureSessionFile(fmt)
    \/ \E seconds \in BookmarkSeconds, event \in BookmarkEvents : Write(seconds, event)
    \/ \E k \in Cuts : Land(k)
    \/ LoadBookmarks

(***************************************************************************)
(* Scans of several videos: the webui.py handlers by vod_path, the markers *)
(* of vod_ocr.main by sanitized stem                                       *)
(***************************************************************************)
MaxSpawns == 3          \* worker processes the controller spawns
FleetFrames == 2        \* frames of each video file (every frame is sampled)

\* [a-zA-Z0-9_-] over the characters the file names are made of
IsStemChar(c) == c \in {"a", "b", "c", "_"}

\* re.sub(r"[^a-zA-Z0-9_-]+", "_", value): every maximal run of other
\* characters becomes one underscore.
RECURSIVE SubRuns(_, _)
SubRuns(value, inRun) ==
    IF value = <<>> THEN <<>>
    ELSE IF IsStemChar(Head(value)) THEN <<Head(value)>> \o SubRuns(Tail(value), FALSE)
    ELSE (IF inRun THEN <<>> ELSE <<"_">>) \o SubRuns(Tail(value), TRUE)

\* str.strip("_")
RECURSIVE LStrip(_)
LStrip(s) == IF s # <<>> /\ Head(s) = "_" THEN LStrip(Tail(s)) ELSE s
RECURSIVE RStrip(_)
RStrip(s) == IF s # <<>> /\ s[Len(s)] = "_" THEN RStrip(SubSeq(s, 1, Len(s) - 1)) ELSE s

sanitize_stem(value) == RStrip(LStrip(SubRuns(value, FALSE)))

\* safe_stem = sanitize_stem(vod_path.stem) or "vod"
SafeStem(path) ==
    LET s == sanitize_stem(path.stem) IN IF s = <<>> THEN <<"v", "o", "d">> ELSE s

\* The video files offered to the controller: "a b.mp4", "a_b.mp4", "c.mp4".
VodPaths ==
    { [parent |-> "vods", stem |-> <<"a", " ", "b">>],
      [parent |-> "vods", stem |-> <<"a", "_", "b">>],
      [parent |-> "vods", stem |-> <<"c">>] }
SafeStems == {SafeStem(path) : path \in VodPaths}
NoPath == [parent |-> "", stem |-> <<>>]

\* Process slots of the machine.
Pids == {"p1", "p2"}

\* The fleet keeps one session file for each stem: the first log id.
StemSession == CHOOSE l \in LogIds : \A m \in LogIds : l <= m

FleetProgress(frame) == IF FleetFrames > 0 THEN Min(100, (frame * 100) \div FleetFrames) ELSE 0
NoPid == [pc |-> "idle", path |-> NoPath, resume |-> FALSE, frame_index |-> 0,
          start_frame |-> 0, first |-> TRUE]

FleetAtRest ==
    [paused |-> [s \in SafeStems |-> AbsentMarker],
     scanning |-> [s \in SafeStems |-> NoScanning],
     sessions |-> {},
     procs |-> [w \in Pids |-> NoPid],
     tracked |-> [path \in VodPaths |-> "none"],
     spawns |-> 0]

Running(w) == fleet.procs[w].pc \in {"starting", "scanning"}
\* A process that has ended: how it ended and the video it was given.
Ended(p, how) == [NoPid EXCEPT !.pc = how, !.path = p.path]

\* subprocess.Popen(cmd) and _vod_ocr_processes[vod_path] = proc.  The new
\* process takes a free slot; an entry that still holds the process that
\* had the slot before holds a process that has exited.
Popen(w, path, resume) ==
    [fleet EXCEPT !.procs[w] = [NoPid EXCEPT !.pc = "starting", !.path = path, !.resume = resume],
                  !.tracked = [q \in VodPaths |->
                                  IF q = path THEN w
                                  ELSE IF fleet.tracked[q] = w THEN "exited"
                                  ELSE fleet.tracked[q]],
                  !.spawns = @ + 1]

\* POST /api/vod-ocr
api_vod_ocr_run(path) ==
    /\ fleet.spawns < MaxSpawns
    /\ \E w \in Pids : ~Running(w) /\ fleet' = Popen(w, path, FALSE)
    /\ UNCHANGED <<scanVars, sessVars, mw, sp, det, tm, bk, dl>>

\* POST /api/resume-vod-ocr
api_resume_vod_ocr(path) ==
    /\ fleet.spawns < MaxSpawns
    /\ fleet.paused[SafeStem(path)].kind # "absent"
    /\ \E w \in Pids : ~Running(w) /\ fleet' = Popen(w, path, TRUE)
    /\ UNCHANGED <<scanVars, sessVars, mw, sp, det, tm, bk, dl>>

\* POST /api/pause-vod-ocr
api_pause_vod_ocr(path) ==
    /\ fleet' = [fleet EXCEPT !.paused[SafeStem(path)] = RequestMarker]
    /\ UNCHANGED <<scanVars, sessVars, mw, sp, det, tm, bk, dl>>

\* POST /api/stop-vod-ocr
api_stop_vod_ocr(path) ==
    /\ LET w == fleet.tracked[path]
           procs == IF w \in Pids /\ Running(w)
                    THEN [fleet.procs EXCEPT ![w] = Ended(@, "killed")]
                    ELSE fleet.procs
       IN fleet' = [fleet EXCEPT !.procs = procs,
                                 !.tracked[path] = "none",
                                 !.scanning[SafeStem(path)] = NoScanning,
                                 !.paused[SafeStem(path)] = AbsentMarker]
    /\ UNCHANGED <<scanVars, sessVars, mw, sp, det, tm, bk, dl>>

\* vod_ocr.main, lines 143-193: read and remove the pause marker when
\* resuming, write the scanning marker, create the session file.
MainStarts(w) ==
    /\ fleet.procs[w].pc = "starting"
    /\ LET p == fleet.procs[w]
           stem == SafeStem(p.path)
           marker == fleet.paused[stem]
           reads == p.resume /\ marker.kind # "absent"
       IN fleet' = [fleet EXCEPT
                       !.paused[stem] = IF reads THEN AbsentMarker ELSE @,
                       !.scanning[stem] = Scanning(0, FALSE),
                       !.sessions = @ \cup {stem},
                       !.procs[w] = [p EXCEPT !.pc = "scanning",
                                              !.start_frame = IF reads THEN marker.frame_index ELSE 0,
                                              !.frame_index = 0,
                                              !.first = TRUE]]
    /\ UNCHANGED <<scanVars, sessVars, mw, sp, det, tm, bk, dl>>

\* Lines 207-225: the poll finds the pause marker of the stem.
MainPauses(w) ==
    /\ fleet.procs[w].pc = "scanning"
    /\ LET p == fleet.procs[w]
           stem == SafeStem(p.path)
           progress == FleetProgress(p.frame_index)
       IN /\ fleet.paused[stem].kind # "absent"
          /\ fleet' = [fleet EXCEPT
                          !.paused[stem] = StateMarker(p.frame_index, StemSession, progress),
                          !.scanning[stem] = Scanning(progress, TRUE),
                          !.procs[w] = Ended(p, "paused")]
    /\ UNCHANGED <<scanVars, sessVars, mw, sp, det, tm, bk, dl>>

\* Lines 227-273: one iteration that grabs a frame; no frame of these
\* videos shows a keyword.  The first iteration always polls.
MainGrabs(w) ==
    /\ fleet.procs[w].pc = "scanning"
    /\ LET p == fleet.procs[w]
           stem == SafeStem(p.path)
           f == p.frame_index + 1
       IN /\ ~(p.first /\ fleet.paused[stem].kind # "absent")
          /\ p.frame_index < FleetFrames
          /\ fleet' = [fleet EXCEPT
                          !.scanning[stem] = IF f > p.start_frame
                                             THEN Scanning(FleetProgress(f), FALSE) ELSE @,
                          !.procs[w].frame_index = f,
                          !.procs[w].first = FALSE]
    /\ UNCHANGED <<scanVars, sessVars, mw, sp, det, tm, bk, dl>>

\* Lines 227-229 and 274-279: no frame left; the finally block removes the
\* scanning marker unless a pause marker is there.
MainEnds(w) ==
    /\ fleet.procs[w].pc = "scanning"
    /\ LET p == fleet.procs[w]
           stem == SafeStem(p.path)
       IN /\ ~(p.first /\ fleet.paused[stem].kind # "absent")
          /\ p.frame_index = FleetFrames
          /\ fleet' = [fleet EXCEPT
                          !.scanning[stem] = IF fleet.paused[stem].kind = "absent"
                                             THEN NoScanning ELSE @,
                          !.procs[w] = Ended(p, "completed")]
    /\ UNCHANGED <<scanVars, sessVars, mw, sp, det, tm, bk, dl>>

\* webui.find_vod_scan_state for the stem of a path.
ScanStateOf(f, path) ==
    LET stem == SafeStem(path)
        scanning == f.scanning[stem].exists
        paused == f.paused[stem].kind # "absent"
    IN [scanned |-> stem \in f.sessions,
        scanning |-> scanning,
        paused |-> paused \/ (scanning /\ f.scanning[stem].paused),
        progress |-> IF scanning THEN f.scanning[stem].progress
                     ELSE IF paused /\ f.paused[stem].kind = "state" THEN f.paused[stem].progress
                     ELSE NoProgress]

NextFleet ==
    \/ \E path \in VodPaths : api_vod_ocr_run(path)
    \/ \E path \in VodPaths : api_resume_vod_ocr(path)
    \/ \E path \in VodPaths : api_pause_vod_ocr(path)
    \/ \E path \in VodPaths : api_stop_vod_ocr(path)
    \/ \E w \in Pids : MainStarts(w)
    \/ \E w \in Pids : MainPauses(w)
    \/ \E w \in Pids : MainGrabs(w)
    \/ \E w \in Pids : MainEnds(w)

(***************************************************************************)
(* Twitch VOD downloader: vod_download.py.  One job; the caller's thread   *)
(* and the download thread take the lock in any order.                     *)
(***************************************************************************)
MaxLines == 2           \* progress lines yt-dlp prints during one download

Percents == {25, 100}   \* the percentage of a progress line

NoJob == [status |-> "none", percentage |-> 0, error |-> FALSE, output_file |-> FALSE]
DownloaderAtRest == [job |-> NoJob, thread |-> "none", lines |-> 0, polls |-> 0, first |-> NoJob]

\* start_download: the job is stored under the lock, then the thread starts.
StartDownload ==
    /\ dl.thread = "none"
    /\ dl' = [dl EXCEPT !.job = [NoJob EXCEPT !.status = "initializing"],
                        !.thread = "check_yt_dlp"]
    /\ UNCHANGED <<scanVars, sessVars, mw, sp, det, tm, bk, fleet>>

\* _download_worker, lines 134-147: check_yt_dlp, then the first status.
WorkerCheckYtDlp(installed) ==
    /\ dl.thread = "check_yt_dlp"
    /\ dl' = IF installed
             THEN [dl EXCEPT !.job.status = "fetching_metadata", !.thread = "get_metadata"]
             ELSE [dl EXCEPT !.job.status = "error", !.job.error = TRUE, !.thread = "done"]
    /\ UNCHANGED <<scanVars, sessVars, mw, sp, det, tm, bk, fleet>>

\* Lines 148-166: _get_metadata, then the job is downloading.
WorkerGetMetadata(metadata) ==
    /\ dl.thread = "get_metadata"
    /\ dl' = IF metadata
             THEN [dl EXCEPT !.job.status = "downloading", !.job.output_file = TRUE,
                             !.thread = "download_vod"]
             ELSE [dl EXCEPT !.job.status = "error", !.job.error = TRUE, !.thread = "done"]
    /\ UNCHANGED <<scanVars, sessVars, mw, sp, det, tm, bk, fleet>>

\* _parse_progress on one line of yt-dlp.
ParseProgress(percentage) ==
    /\ dl.thread = "download_vod" /\ dl.lines < MaxLines
    /\ percentage >= dl.job.percentage
    /\ dl' = [dl EXCEPT !.job.percentage = percentage, !.lines = @ + 1]
    /\ UNCHANGED <<scanVars, sessVars, mw, sp, det, tm, bk, fleet>>

\* _download_vod, lines 283-302: yt-dlp has exited.
DownloadEnds(succeeded) ==
    /\ dl.thread = "download_vod"
    /\ dl' = IF succeeded
             THEN [dl EXCEPT !.job.status = "completed", !.job.percentage = 100, !.thread = "done"]
             ELSE [dl EXCEPT !.job.status = "error", !.job.error = TRUE, !.thread = "done"]
    /\ UNCHANGED <<scanVars, sessVars, mw, sp, det, tm, bk, fleet>>

\* get_progress by the caller of start_download, after it returned; first is
\* what the first call saw.
GetProgress ==
    /\ dl.thread # "none" /\ dl.polls < 2
    /\ dl' = [dl EXCEPT !.polls = @ + 1, !.first = IF dl.polls = 0 THEN dl.job ELSE @]
    /\ UNCHANGED <<scanVars, sessVars, mw, sp, det, tm, bk, fleet>>

NextDownload ==
    \/ StartDownload
    \/ \E installed \in BOOLEAN : WorkerCheckYtDlp(installed)
    \/ \E metadata \in BOOLEAN : WorkerGetMetadata(metadata)
    \/ \E percentage \in Percents : ParseProgress(percentage)
    \/ \E succeeded \in BOOLEAN : DownloadEnds(succeeded)
    \/ GetProgress

(***************************************************************************)
(* Clip windows: split_bookmarks.py                                        *)
(***************************************************************************)
MaxTime == 2            \* latest second a window starts or ends at
MaxWindows == 3         \* windows in one list
MaxGap == 1             \* largest merge gap

ClipWindow(start, end) == [start |-> start, end |-> end]

\* A sweep that merges only a window starting strictly before end + gap.
RECURSIVE MergeIntoStrict(_, _, _)
MergeIntoStrict(merged, rest, gap) ==
    IF rest = <<>> THEN merged
    ELSE LET current == Head(rest)
             last == merged[Len(merged)]
         IN IF current.start < last.end + gap
            THEN MergeIntoStrict([merged EXCEPT ![Len(merged)].end = Max(last.end, current.end)],
                                 Tail(rest), gap)
            ELSE MergeIntoStrict(Append(merged, current), Tail(rest), gap)

\* The loop of merge_windows: merged is the list built so far, rest the
\* windows still to visit.
RECURSIVE MergeInto(_, _, _)
MergeInto(merged, rest, gap) ==
    IF rest = <<>> THEN merged
    ELSE LET current == Head(rest)
             last == merged[Len(merged)]
         IN IF current.start <= last.end + gap
            THEN MergeInto([merged EXCEPT ![Len(merged)].end = Max(last.end, current.end)],
                           Tail(rest), gap)
            ELSE MergeInto(Append(merged, current), Tail(rest), gap)

\* A merge that compares each window with the window before it in the input
\* instead of with the last merged one.
RECURSIVE MergeIntoPrev(_, _, _, _)
MergeIntoPrev(merged, prev, rest, gap) ==
    IF rest = <<>> THEN merged
    ELSE LET current == Head(rest)
             last == merged[Len(merged)]
         IN IF current.start <= prev.end + gap
            THEN MergeIntoPrev([merged EXCEPT ![Len(merged)].end = Max(last.end, current.end)],
                               current, Tail(rest), gap)
            ELSE MergeIntoPrev(Append(merged, current), current, Tail(rest), gap)
merge_windows_prev(windows, gap) ==
    IF windows = <<>> THEN <<>>
    ELSE MergeIntoPrev(<<windows[1]>>, windows[1], Tail(windows), gap)

merge_windows(windows, gap) ==
    IF windows = <<>> THEN <<>> ELSE MergeInto(<<windows[1]>>, Tail(windows), gap)

Times == 0..MaxTime
Gaps == (0 - 1)..MaxGap
AllWindows == {ClipWindow(a, b) : a \in Times, b \in Times}
SortedByStart(ws) == \A k \in 1..(Len(ws) - 1) : ws[k].start <= ws[k + 1].start
WindowLists == {ws \in UNION {[1..n -> AllWindows] : n \in 0..MaxWindows} : SortedByStart(ws)}

MergeAtRest == [pc |-> "rest", windows |-> <<>>, gap |-> 0, merged |-> <<>>, again |-> <<>>]
\* split_from_config not called: no events read, no window built, no trim run.
SplitAtRest == [pc |-> "rest", events |-> <<>>, pre |-> 0, post |-> 0, gap |-> 0,
                raw |-> <<>>, windows |-> <<>>, invoked |-> <<>>, written |-> <<>>,
                failed_at |-> 0]
InitMerge ==
    /\ mw = MergeAtRest /\ sp = SplitAtRest /\ det = DetAtRest
    /\ tm = TimerAtRest /\ bk = LogAtRest /\ dl = DownloaderAtRest
    /\ fleet = FleetAtRest

\* A caller holding a window list sorted by start and a gap.
InitMergeInputs ==
    /\ mw \in {[MergeAtRest EXCEPT !.pc = "input", !.windows = ws, !.gap = g] :
               ws \in WindowLists, g \in Gaps}
    /\ sp = SplitAtRest
    /\ det = DetAtRest
    /\ tm = TimerAtRest
    /\ bk = LogAtRest
    /\ dl = DownloaderAtRest
    /\ fleet = FleetAtRest

MergeOnce ==
    /\ mw.pc = "input"
    /\ mw' = [mw EXCEPT !.pc = "merged", !.merged = merge_windows(mw.windows, mw.gap)]
    /\ UNCHANGED <<scanVars, sessVars, sp, det, tm, bk, dl, fleet>>

MergeAgain ==
    /\ mw.pc = "merged"
    /\ mw' = [mw EXCEPT !.pc = "again", !.again = merge_windows(mw.merged, mw.gap)]
    /\ UNCHANGED <<scanVars, sessVars, sp, det, tm, bk, dl, fleet>>

NextMerge == MergeOnce \/ MergeAgain

\* ---- split_from_config: bookmarks to windows to clips ----
MaxEvents == 3          \* bookmarks in the log handed to a split run

\* Times of the bookmarks: the start of the recording, two seconds later,
\* and the seconds 10, 12 and 40 of the documented examples.
EventTimes == {0, 2, 10, 12, 40}
PreRolls == {0, 5}
PostRolls == {0, 5}
SplitGaps == {0, 2}
EventLists == UNION {[1..n -> EventTimes] : n \in 0..MaxEvents}

\* windows.sort(key=lambda w: w.start): a stable sort, here by insertion
\* after the last window that does not start later.
RECURSIVE InsertByStart(_, _)
InsertByStart(sorted, w) ==
    IF sorted = <<>> THEN <<w>>
    ELSE IF sorted[Len(sorted)].start <= w.start THEN Append(sorted, w)
    ELSE Append(InsertByStart(SubSeq(sorted, 1, Len(sorted) - 1), w), sorted[Len(sorted)])
RECURSIVE SortByStart(_)
SortByStart(ws) ==
    IF ws = <<>> THEN <<>>
    ELSE InsertByStart(SortByStart(SubSeq(ws, 1, Len(ws) - 1)), ws[Len(ws)])

\* Windows left in the order of the bookmarks, not sorted by start.
build_windows_unsorted(events, pre, post) ==
    [k \in 1..Len(events) |-> ClipWindow(Max(0, events[k] - pre), Max(0, events[k] + post))]

\* build_windows(events, pre, post)
build_windows(events, pre, post) ==
    SortByStart([k \in 1..Len(events) |->
                    ClipWindow(Max(0, events[k] - pre), Max(0, events[k] + post))])

\* split_from_config up to the loop (lines 159-191): read the bookmarks,
\* return if there are none, else build and merge the windows.
SplitFromConfig(events, pre, post, gap) ==
    /\ sp.pc = "rest"
    /\ LET raw == build_windows(events, pre, post)
           windows == merge_windows(raw, gap)
       IN sp' = [SplitAtRest EXCEPT
                    !.pc = IF events = <<>> THEN "no_bookmarks"
                           ELSE IF windows = <<>> THEN "completed" ELSE "trimming",
                    !.events = events, !.pre = pre, !.post = post, !.gap = gap,
                    !.raw = IF events = <<>> THEN <<>> ELSE raw,
                    !.windows = IF events = <<>> THEN <<>> ELSE windows]
    /\ UNCHANGED <<scanVars, sessVars, mw, det, tm, bk, dl, fleet>>

\* A loop that logs the failure of a trim and goes on with the next window.
AfterTrimContinue(state, index, ok) ==
    [state EXCEPT !.pc = IF index = Len(state.windows) THEN "completed" ELSE "trimming",
                  !.invoked = Append(@, index),
                  !.written = IF ok THEN Append(@, index) ELSE @,
                  !.failed_at = IF ok \/ @ # 0 THEN @ ELSE index]

\* Lines 193-209: one iteration of the loop: run_ffmpeg on the next window;
\* CalledProcessError or RuntimeError ends the run.
AfterTrim(state, index, ok) ==
    [state EXCEPT !.pc = IF ~ok THEN "failed"
                         ELSE IF index = Len(state.windows) THEN "completed" ELSE "trimming",
                  !.invoked = Append(@, index),
                  !.written = IF ok THEN Append(@, index) ELSE @,
                  !.failed_at = IF ok THEN @ ELSE index]

\* run_ffmpeg for the next window of the list, succeeding or failing.
RunFfmpeg(ok) ==
    /\ sp.pc = "trimming"
    /\ sp' = AfterTrim(sp, Len(sp.invoked) + 1, ok)
    /\ UNCHANGED <<scanVars, sessVars, mw, det, tm, bk, dl, fleet>>

NextSplit ==
    \/ \E events \in EventLists, pre \in PreRolls, post \in PostRolls, gap \in SplitGaps :
          SplitFromConfig(events, pre, post, gap)
    \/ \E ok \in BOOLEAN : RunFfmpeg(ok)

\* The scan side at rest, for the specifications that do not run it.
ScanAtRest ==
    /\ video = [f \in Frames |-> <<>>]
    /\ paused_marker = AbsentMarker
    /\ scanning_marker = NoScanning
    /\ logs = [l \in LogIds |-> NoFile]
    /\ next_session = 1
    /\ starts = 0
    /\ proc = [w \in Workers |-> IdleProc]
    /\ tracked = "none"
    /\ run = [w \in Workers |-> NoRun]
    /\ pauses = <<0, 0>>

\* The state every specification starts from: the part it runs as constructed,
\* the other parts at rest.
\* A frame whose timer region reads some text blocks, or a sync request for
\* two videos whose timer regions read primary and secondary.
InitTimerInputs ==
    /\ mw = MergeAtRest
    /\ sp = SplitAtRest
    /\ det = DetAtRest
    /\ bk = LogAtRest
    /\ dl = DownloaderAtRest
    /\ fleet = FleetAtRest
    /\ tm \in {[TimerAtRest EXCEPT !.op = "frame", !.text = Join(blocks)] :
                blocks \in TokenLists}
           \cup {[TimerAtRest EXCEPT !.op = "request", !.primary = p, !.secondary = q] :
                   p \in Readings, q \in Readings}

InitScanning == InitScan /\ InitSess /\ InitMerge
InitSessions == ScanAtRest /\ InitSess /\ InitMerge
InitMerging == ScanAtRest /\ InitSess /\ InitMergeInputs
InitTimers == ScanAtRest /\ InitSess /\ InitTimerInputs

SpecScan == InitScanning /\ [][NextScan]_vars
SpecCreate == InitSessions /\ [][NextCreate]_vars
SpecOffsets == InitSessions /\ [][NextOffsets]_vars
SpecHistory == InitSessions /\ [][NextHistory]_vars
SpecProvenance == InitSessions /\ [][NextProvenance]_vars
SpecPlayback == InitSessions /\ [][NextPlayback]_vars
SpecDetect == InitSessions /\ [][NextDetect]_vars
SpecTimer == InitTimers /\ [][NextTimer]_vars
SpecLog == InitSessions /\ [][NextLog]_vars
SpecFleet == InitSessions /\ [][NextFleet]_vars
SpecDownload == InitSessions /\ [][NextDownload]_vars
\* A video that is started and paused, with a worker that is always scheduled:
\* whichever step of main() it can take, it takes.
NextPause ==
    \/ \E w \in Workers : ApiRun(w)
    \/ ApiPause
    \/ \E w \in Workers : WorkerMain(w)
    \/ \E w \in Workers : WorkerPause(w)
    \/ \E w \in Workers : WorkerStep(w)
    \/ \E w \in Workers : WorkerEnd(w)
WorkerRuns ==
    \E w \in Workers : WorkerMain(w) \/ WorkerPause(w) \/ WorkerStep(w) \/ WorkerEnd(w)
SpecPause == InitScanning /\ [][NextPause]_vars /\ WF_vars(WorkerRuns)
\* Videos that are started without --resume and left alone while they are
\* scanned; the application may shut down and come back between two scans.
ShutdownAtRest == (\A w \in Workers : ~Live(w)) /\ cleanup_on_exit
NextRestart ==
    \/ \E w \in Workers : ApiRun(w)
    \/ ShutdownAtRest
    \/ \E w \in Workers : WorkerMain(w)
    \/ \E w \in Workers : WorkerPause(w)
    \/ \E w \in Workers : WorkerStep(w)
    \/ \E w \in Workers : WorkerEnd(w)
SpecRestart == InitScanning /\ [][NextRestart]_vars /\ WF_vars(WorkerRuns)
\* A video that is started, paused and resumed; nothing is stopped or deleted.
NextResume ==
    \/ \E w \in Workers : ApiRun(w)
    \/ \E w \in Workers : ApiResume(w)
    \/ ApiPause
    \/ \E w \in Workers : WorkerMain(w)
    \/ \E w \in Workers : WorkerPause(w)
    \/ \E w \in Workers : WorkerStep(w)
    \/ \E w \in Workers : WorkerEnd(w)
SpecResume == InitScanning /\ [][NextResume]_vars
SpecSeek == InitSessions /\ [][NextSeek]_vars
SpecRace == InitSessions /\ [][NextRace]_vars
SpecMerge == InitMerging /\ [][NextMerge]_vars
SpecFaults == InitScanning /\ [][NextFaults]_vars
SpecSplit == InitSessions /\ [][NextSplit]_vars

(***************************************************************************)
(* Properties                                                              *)
(***************************************************************************)
IsPrefix(a, b) == Len(a) <= Len(b) /\ \A k \in 1..Len(a) : b[k] = a[k]
KnownId(session, id) == \E i \in 1..Len(session.vods) : session.vods[i].vod_id = id
FirstWithId(session, i) == \A k \in 1..(i - 1) : session.vods[k].vod_id # session.vods[i].vod_id

\* C1: a scanning worker whose poll finds the pause marker overwrites it with
\* the number of frames it has grabbed, the path of its bookmark log and its
\* progress, rewrites the scanning marker with that progress and paused=true,
\* and stops: it grabs and samples no further frame and writes no bookmark.
\* A worker in its first iteration with the marker present takes no other step.
C1_PauseSavesState ==
    [][\A w \in Workers :
        /\ (proc[w].pc = "scanning" /\ proc'[w].pc = "paused") =>
              /\ paused_marker.kind # "absent"
              /\ paused_marker' =
                     [kind |-> "state", frame_index |-> run[w].grabbed,
                      session_file |-> proc[w].session_file,
                      progress |-> Min(100, (run[w].grabbed * 100) \div TotalFrames)]
              /\ scanning_marker' =
                     [exists |-> TRUE, paused |-> TRUE,
                      progress |-> Min(100, (run[w].grabbed * 100) \div TotalFrames)]
              /\ run'[w] = run[w]
              /\ logs' = logs
        /\ (proc[w].pc = "scanning" /\ proc[w].first /\ paused_marker.kind # "absent"
               /\ proc'[w] # proc[w]) => proc'[w].pc \in {"paused", "killed"}
        /\ (proc[w].pc = "paused" /\ proc'[w] # proc[w]) => proc'[w].pc = "starting"
      ]_vars

\* A worker has stopped on a pause request after grabbing and sampling frames,
\* and both markers hold what it saved.
C1_Witness ==
    \E w \in Workers :
        /\ proc[w].pc = "paused"
        /\ run[w].sampled # {}
        /\ paused_marker.kind = "state"
        /\ paused_marker.frame_index = run[w].grabbed
        /\ paused_marker.frame_index > 0
        /\ scanning_marker.exists /\ scanning_marker.paused

ContinuesFrom(r) ==
    /\ \A f \in r.sampled : f > r.from_frame
    /\ r.wrote \subseteq {r.from_file}
    /\ r.created = NoLog

\* C2 as stated: a worker started with the resume flag on a pause marker
\* holding frame_index N and bookmark log L samples only frames after N,
\* writes every bookmark to L and creates no new log.
C2_ResumeContinues == \A w \in Workers : run[w].resumed => ContinuesFrom(run[w])

\* C2 amended: the same, for a worker that finds L still there when it starts.
C2_ResumeContinuesIfLogExists ==
    \A w \in Workers : (run[w].resumed /\ run[w].file_existed) => ContinuesFrom(run[w])

\* A resumed worker has sampled a frame and written a bookmark to the log
\* named by the marker.
C2_Witness ==
    \E w \in Workers :
        /\ run[w].resumed /\ run[w].file_existed
        /\ run[w].from_frame > 0
        /\ run[w].sampled # {}
        /\ run[w].wrote = {run[w].from_file}
        /\ Len(logs[run[w].from_file].recs) >= 2

\* C3: within one scan (a start and the resumes that continue it), a pause
\* never records a frame_index smaller than the pause before it recorded.
C3_FrameIndexNeverDecreases == pauses[1] <= pauses[2]

\* C9 for the VOD scan: two bookmarks of one log at different times are at
\* least the cooldown apart (a keyword frame less than the cooldown after an
\* accepted one is not accepted).
C9_CooldownInScan ==
    \A l \in LogIds : \A i, j \in 1..Len(logs[l].recs) :
        logs[l].recs[i] < logs[l].recs[j]
            => logs[l].recs[j] - logs[l].recs[i] >= CooldownTicks

\* C4: a batch update naming a vod id that is not in the session returns
\* None and leaves the persisted session as it was.
C4_BatchAllOrNothing ==
    [][(/\ SessionExists
        /\ lastCall'.op = "batch_update_offsets"
        /\ \E id \in DOMAIN lastCall'.offsets : ~KnownId(disk[1], id))
       => (lastCall'.result = "none" /\ disk' = disk)]_vars

\* A batch naming a vod of the session and an unknown one was refused, on a
\* session that already has a history.
C4_Witness ==
    /\ SessionExists
    /\ lastCall.op = "batch_update_offsets" /\ lastCall.result = "none"
    /\ \E id \in DOMAIN lastCall.offsets : KnownId(disk[1], id)
    /\ \E id \in DOMAIN lastCall.offsets : ~KnownId(disk[1], id)
    /\ HistoryEntries(disk[1].vods) > 0

\* C5: a successful update_offset or batch_update_offsets appends exactly one
\* entry to the history of each vod it names (the first vod carrying the id),
\* with old_offset the offset before the call and new_offset the offset after
\* it, which is the offset asked for; every other vod keeps its offset and
\* its history.
C5_OneEntryPerChange ==
    [][(/\ SessionExists /\ SessionExists'
        /\ disk' # disk
        /\ lastCall'.op \in {"update_offset", "batch_update_offsets"}
        /\ lastCall'.result = "ok")
       => /\ Len(disk'[1].vods) = Len(disk[1].vods)
          /\ \A i \in 1..Len(disk[1].vods) :
                LET before == disk[1].vods[i]
                    after == disk'[1].vods[i]
                    n == Len(before.offset_history)
                IN IF before.vod_id \in DOMAIN lastCall'.offsets /\ FirstWithId(disk[1], i)
                   THEN /\ Len(after.offset_history) = n + 1
                        /\ IsPrefix(before.offset_history, after.offset_history)
                        /\ after.offset_history[n + 1].old_offset = before.offset
                        /\ after.offset_history[n + 1].new_offset = after.offset
                        /\ after.offset = lastCall'.offsets[before.vod_id]
                   ELSE /\ after.offset_history = before.offset_history
                        /\ after.offset = before.offset]_vars

\* A vod has two entries, the second recording the first's new offset as old.
C5_Witness ==
    /\ SessionExists
    /\ lastCall.op \in {"update_offset", "batch_update_offsets"} /\ lastCall.result = "ok"
    /\ \E i \in 1..Len(disk[1].vods) :
          /\ Len(disk[1].vods[i].offset_history) = 2
          /\ disk[1].vods[i].offset_history[2].old_offset # 0
          /\ disk[1].vods[i].offset_history[2].old_offset
                 = disk[1].vods[i].offset_history[1].new_offset

\* C6: under concurrent callers the persisted history of each vod only grows:
\* what one persisted state holds is a prefix of what every later one holds.
C6_HistoryAppendOnly ==
    [][(SessionExists /\ SessionExists') =>
          \A i \in 1..Len(disk[1].vods) :
              IsPrefix(disk[1].vods[i].offset_history, disk'[1].vods[i].offset_history)]_vars

C8_TwoOrThreeVods ==
    /\ SessionExists => Len(disk[1].vods) \in {2, 3}
    /\ lastCall.op \in {"create_session", "validate"} =>
          /\ (lastCall.n < 2 \/ lastCall.n > 3) => lastCall.result = "error"
          /\ (/\ lastCall.n \in {2, 3}
              /\ lastCall.empty_path = {} /\ lastCall.empty_id = {}
              /\ lastCall.bad_duration = {}) => lastCall.result = "ok"
    /\ lastCall.op = "create_session" =>
          IF lastCall.result = "ok"
          THEN SessionExists /\ Len(disk[1].vods) = lastCall.n
          ELSE ~SessionExists

\* validate was handed four sound vods and refused them.
C8_Witness ==
    /\ lastCall.op = "validate" /\ lastCall.n = 4 /\ lastCall.result = "error"
    /\ lastCall.empty_path = {} /\ lastCall.empty_id = {} /\ lastCall.bad_duration = {}

\* C10: merging a merged list again with the same gap gives the same list.
C10_MergeIdempotent == mw.pc = "again" => mw.again = mw.merged

\* A list of three windows was merged into fewer, then merged again.
C10_Witness ==
    /\ mw.pc = "again"
    /\ Len(mw.windows) = 3
    /\ Len(mw.merged) = 2
    /\ mw.merged # mw.windows

\* C11: every window built by build_windows and every window left by
\* merge_windows has start >= 0 and end > start.
C11_WindowsNotEmpty ==
    sp.pc # "rest" =>
        /\ \A k \in 1..Len(sp.raw) : sp.raw[k].start >= 0 /\ sp.raw[k].end > sp.raw[k].start
        /\ \A k \in 1..Len(sp.windows) :
              sp.windows[k].start >= 0 /\ sp.windows[k].end > sp.windows[k].start

\* The greatest end among the windows f..k of a list.
MaxEndOf(ws, f, k) == CHOOSE e \in {ws[i].end : i \in f..k} : \A i \in f..k : ws[i].end <= e
\* The window of a list that opens the merged window holding window k,
\* when the windows in opens (and the first one) open a merged window.
OpenerOf(opens, k) == CHOOSE f \in opens \cup {1} : f <= k /\ \A g \in opens \cup {1} : g <= k => g <= f
\* The last window of the merged window that window f opens.
CloserOf(opens, n, f) ==
    CHOOSE l \in f..n : (\A g \in opens : g <= f \/ g > l) /\ (l = n \/ l + 1 \in opens)
\* The k-th smallest member of a set of numbers.
NthOf(set, k) == CHOOSE x \in set : Cardinality({y \in set : y <= x}) = k

\* C12: over the windows sorted by start, a window is merged into the
\* current merged window exactly when its start <= current.end + gap, the
\* current end becoming the greater of the two ends, and opens a new merged
\* window otherwise; events at 10 and 12 with pre 5, post 5, gap 2 give
\* [5,17], events at 10 and 40 give [5,15] and [35,45].
C12_MergeSweep ==
    (sp.pc # "rest" /\ sp.events # <<>>) =>
        LET raw == sp.raw
            n == Len(raw)
        IN /\ \A k \in 1..(n - 1) : raw[k].start <= raw[k + 1].start
           /\ \E opens \in SUBSET (2..n) :
                 /\ \A k \in 2..n :
                       k \in opens <=>
                          raw[k].start > MaxEndOf(raw, OpenerOf(opens, k - 1), k - 1) + sp.gap
                 /\ Len(sp.windows) = Cardinality(opens) + 1
                 /\ \A j \in 1..Len(sp.windows) :
                       LET f == NthOf(opens \cup {1}, j)
                       IN sp.windows[j] =
                             ClipWindow(raw[f].start, MaxEndOf(raw, f, CloserOf(opens, n, f)))
           /\ (sp.events = <<10, 12>> /\ sp.pre = 5 /\ sp.post = 5 /\ sp.gap = 2)
                 => sp.windows = <<ClipWindow(5, 17)>>
           /\ (sp.events = <<10, 40>> /\ sp.pre = 5 /\ sp.post = 5 /\ sp.gap = 2)
                 => sp.windows = <<ClipWindow(5, 15), ClipWindow(35, 45)>>

\* Three events were swept into two windows: the second was merged into the
\* first at exactly end + gap, the third opened a new window.
C12_Witness ==
    /\ sp.pc # "rest"
    /\ Len(sp.raw) = 3 /\ Len(sp.windows) = 2
    /\ sp.raw[2].start = sp.raw[1].end + sp.gap
    /\ sp.windows[1].end = sp.raw[2].end
    /\ sp.windows[1].end > sp.raw[1].end
    /\ sp.windows[2] = sp.raw[3]

\* C13: the trim is invoked for the merged windows one at a time in list
\* order, and once a trim has failed none is invoked for a later window: the
\* windows trimmed are always a prefix of the list.
C13_FailStop ==
    /\ Len(sp.invoked) <= Len(sp.windows)
    /\ \A k \in 1..Len(sp.invoked) : sp.invoked[k] = k
    /\ sp.failed_at # 0 => (sp.pc = "failed" /\ Len(sp.invoked) = sp.failed_at)
    /\ sp.written = SubSeq(sp.invoked, 1, Len(sp.written))
    /\ sp.pc = "completed" => sp.written = sp.invoked /\ Len(sp.invoked) = Len(sp.windows)

\* The trim of the second of three windows failed and the run ended there.
C13_Witness ==
    /\ sp.pc = "failed"
    /\ Len(sp.windows) = 3
    /\ sp.failed_at = 2
    /\ sp.invoked = <<1, 2>>
    /\ sp.written = <<1>>

\* C14: a worker started with the resume flag that finds the pause marker
\* missing, unparsable, or naming a log that no longer exists starts at
\* frame 0, does not fail, and does not stop before its first frame unless a
\* pause is requested: it goes on to sample frames.
C14_ResumeWithoutStateScans ==
    [][\A w \in Workers :
          run'[w].found \in {"missing", "unparsable", "log_gone"} =>
             /\ proc'[w].pc = "scanning" => proc'[w].start_frame = 0
             /\ (proc[w].pc = "scanning" /\ proc'[w].pc = "failed") =>
                    paused_marker.kind # "absent"
             /\ (proc[w].pc = "scanning" /\ proc[w].first /\ proc'[w].pc = "paused") =>
                    paused_marker.kind = "request"
      ]_vars

\* C15: a worker that reaches the end of the video removes the scanning
\* marker if and only if no pause marker exists at that moment, and leaves
\* the pause marker as it is.
C15_EndKeepsPausedScan ==
    [][\A w \in Workers :
          (proc[w].pc = "scanning" /\ proc'[w].pc = "completed") =>
             /\ paused_marker' = paused_marker
             /\ scanning_marker' = IF paused_marker.kind = "absent"
                                    THEN NoScanning ELSE scanning_marker
      ]_vars

\* A worker reached the end of the video while a pause request it had not
\* seen was waiting: both markers are still there.
C15_Witness ==
    \E w \in Workers :
        /\ proc[w].pc = "completed"
        /\ run[w].grabbed = TotalFrames
        /\ paused_marker.kind = "request"
        /\ scanning_marker.exists

\* C16: while a scan is in progress the progress a status query reports is
\* an integer from 0 to 100 and never decreases, also across the resumption
\* of a paused scan.
C16_ProgressNeverDecreases ==
    [][(/\ find_vod_scan_state.scanning
        /\ find_vod_scan_state'.scanning
        /\ \A w \in Workers :
              (proc[w].pc = "starting" /\ proc'[w].pc = "scanning") => run'[w].found = "state")
       => /\ find_vod_scan_state'.progress \in 0..100
          /\ find_vod_scan_state'.progress >= find_vod_scan_state.progress
      ]_vars

\* What a status query reports for a video never scanned, and for one whose
\* scan ran to the end.
NeverScanned == [scanned |-> FALSE, scanning |-> FALSE, paused |-> FALSE, progress |-> NoProgress]
ScanComplete == [scanned |-> TRUE, scanning |-> FALSE, paused |-> FALSE, progress |-> NoProgress]

\* C17: once a worker has stopped on an error (the video cannot be opened,
\* or an error while scanning) a status query shows it: the report is not
\* that of a video never scanned nor that of a completed scan.
C17_FailureIsReported ==
    [][\A w \in Workers :
          (proc[w].pc # "failed" /\ proc'[w].pc = "failed") =>
              find_vod_scan_state' \notin {NeverScanned, ScanComplete}
      ]_vars

\* C18: get_offset_history returns every history entry of the selected vod
\* (of every vod when none is selected) ordered by timestamp descending, and
\* an entry appended by a later change never comes after an entry appended
\* by an earlier one.
C18_LatestChangeFirst ==
    (lastCall.op = "get_offset_history" /\ lastCall.result = "ok") =>
        LET rows == lastCall.rows
            vods == load_session.vods
            chosen == {i \in 1..Len(vods) : lastCall.vod_id \in {"", vods[i].vod_id}}
        IN /\ \A i \in chosen : \A k \in 1..Len(vods[i].offset_history) :
                 \E r \in 1..Len(rows) :
                    /\ rows[r].of = i /\ rows[r].nth = k
                    /\ rows[r].vod_id = vods[i].vod_id
                    /\ rows[r].timestamp = vods[i].offset_history[k].timestamp
                    /\ rows[r].new_offset = vods[i].offset_history[k].new_offset
           /\ \A r \in 1..(Len(rows) - 1) : rows[r].timestamp >= rows[r + 1].timestamp
           /\ \A r, q \in 1..Len(rows) :
                 (r < q /\ rows[r].of = rows[q].of) => rows[r].nth > rows[q].nth

C20_TimerNeedsConfidence ==
    SessionExists =>
        \A i \in 1..Len(disk[1].vods) :
            LET vod == disk[1].vods[i]
                n == Len(vod.offset_history)
            IN /\ \A k \in 1..n :
                     vod.offset_history[k].source = "timer_ocr"
                        => vod.offset_history[k].confidence # NoConfidence
               /\ (n > 0 /\ vod.offset_history[n].source = "manual"
                         /\ vod.offset_history[n].confidence = NoConfidence)
                     => vod.offset_confidence = 100

\* C21: in every stored session the vod at index 0 is the time reference:
\* its offset is 0.
C21_ReferenceOffsetZero == SessionExists => disk[1].vods[1].offset = 0

\* C22 as stated: create_session given a vod with an empty path or a
\* non-positive duration fails with an error that names the index of such a
\* vod, and writes no session; a session is stored only when the whole list
\* is valid.
C22_ErrorNamesTheVod ==
    lastCall.op = "create_session" =>
        /\ (lastCall.empty_path \cup lastCall.bad_duration # {}) =>
              /\ lastCall.result = "error"
              /\ lastCall.index + 1 \in lastCall.empty_path \cup lastCall.bad_duration
              /\ ~SessionExists
        /\ lastCall.result = "ok" =>
              /\ lastCall.n \in {2, 3}
              /\ lastCall.empty_path \cup lastCall.empty_id \cup lastCall.bad_duration = {}
              /\ SessionExists

\* C22 as the code has it: a list of fewer than 2 or more than 3 vods fails
\* with the count error, which names no index; a list of 2 or 3 vods holding
\* a vod with an empty path, an empty id or a non-positive duration fails with
\* an error naming the index of the first such vod and the defect found
\* first in it; in both cases no session is written, and a session is stored
\* only when the whole list is valid.
C22_ErrorNamesFirstFault ==
    lastCall.op = "create_session" =>
        LET bad == lastCall.empty_path \cup lastCall.empty_id \cup lastCall.bad_duration
        IN /\ lastCall.n \notin {2, 3} =>
                 /\ lastCall.result = "error" /\ lastCall.index = 0 - 1
                 /\ lastCall.error = "Session must have 2-3 VODs"
                 /\ ~SessionExists
           /\ (lastCall.n \in {2, 3} /\ bad # {}) =>
                 /\ lastCall.result = "error"
                 /\ lastCall.index + 1 \in bad
                 /\ \A i \in bad : lastCall.index + 1 <= i
                 /\ lastCall.error =
                       IF lastCall.index + 1 \in lastCall.empty_path \cup lastCall.empty_id
                       THEN "missing path or ID" ELSE "has invalid duration"
                 /\ ~SessionExists
           /\ lastCall.result = "ok" =>
                 /\ lastCall.n \in {2, 3} /\ bad = {}
                 /\ SessionExists

\* create_session was handed three vods, the second with a non-positive
\* duration and the third with an empty path: it named index 1 and stored
\* nothing.
C22_Witness ==
    /\ lastCall.op = "create_session" /\ lastCall.result = "error"
    /\ lastCall.n = 3
    /\ lastCall.bad_duration = {2} /\ lastCall.empty_path = {3} /\ lastCall.empty_id = {}
    /\ lastCall.index = 1
    /\ lastCall.error = "has invalid duration"
    /\ ~SessionExists

\* C28: in every stored session no two vods have the same vod_id.
C28_VodIdsUnique ==
    SessionExists =>
        \A i, k \in 1..Len(disk[1].vods) :
            i # k => disk[1].vods[i].vod_id # disk[1].vods[k].vod_id

\* C29: in every stored session global_time >= 0.
C29_GlobalTimeNotNegative == SessionExists => disk[1].global_time >= 0

\* C30: EventDetector.detect changes the last-trigger time only on a match:
\* a call that returns no match, because the cooldown has not elapsed or
\* because no line holds a keyword, leaves it unchanged, and a call that
\* matches sets it to the time of that call.
C30_TriggerOnlyOnMatch ==
    [][det' # det =>
          /\ det'.matched <=> (/\ det'.now - det.last_trigger >= DetCooldown
                               /\ \E k \in 1..Len(det'.lines) :
                                     Contains(Keywords[1], Normalize(det'.lines[k])))
          /\ det'.last_trigger = IF det'.matched THEN det'.now ELSE det.last_trigger
      ]_vars

\* A call with a keyword line was turned down within the cooldown of an
\* earlier match, and the last-trigger time is still that of the match.
C30_Witness ==
    /\ ~det.matched
    /\ \E k \in 1..Len(det.lines) : Contains(Keywords[1], Normalize(det.lines[k]))
    /\ det.last_trigger >= DetEpoch
    /\ det.now > det.last_trigger
    /\ det.now - det.last_trigger < DetCooldown

\* The ring timers and the countdowns a text holds, as the patterns read them.
RingFormAt(text, i) ==
    <<text[i], ":">> \o MinutesAt(text, SkipSpaces(text, i + 1))
        \o <<":">> \o SecondsAt(text, SkipSpaces(text, i + 1))
BareFormAt(text, j) == MinutesAt(text, j) \o <<":">> \o SecondsAt(text, j)
HoldsRingTimer(text, i) ==
    /\ RingTimerAt(text, i)
    /\ InRange(MinutesAt(text, SkipSpaces(text, i + 1)), SecondsAt(text, SkipSpaces(text, i + 1)))
HoldsCountdown(text, j) ==
    TimerOnlyAt(text, j) /\ InRange(MinutesAt(text, j), SecondsAt(text, j))

\* C23: a text that holds a lone ring digit 1-9 followed by a countdown with
\* minutes < 60 and seconds < 60 parses to "ring:mm:ss" of a ring timer it
\* holds, and "1 00:27" parses to "1:00:27".
C23_RingTimerIsReturned ==
    tm.op = "parsed" =>
        LET normalized == NormalizeSpaces(tm.text)
        IN /\ (\E i \in 1..Len(normalized) : HoldsRingTimer(normalized, i))
                => \E i \in 1..Len(normalized) :
                      HoldsRingTimer(normalized, i) /\ tm.timer = RingFormAt(normalized, i)
           /\ tm.text = <<"1", " ", "0", "0", ":", "2", "7">>
                => tm.timer = <<"1", ":", "0", "0", ":", "2", "7">>

\* C24 as stated: a text with no ring timer parses to a countdown it holds,
\* and "00:27" parses to "0:27".
C24_BareTimerShortForm ==
    tm.op = "parsed" =>
        LET normalized == NormalizeSpaces(tm.text)
        IN /\ FirstRingTimer(normalized) = 0
                => \/ tm.timer = NoTimer
                   \/ \E j \in 1..Len(normalized) :
                         HoldsCountdown(normalized, j) /\ tm.timer = BareFormAt(normalized, j)
           /\ tm.text = <<"0", "0", ":", "2", "7">> => tm.timer = <<"0", ":", "2", "7">>

\* C24: a text with no ring timer never parses to the ring form: it parses to
\* nothing or to a countdown the text holds, minutes and seconds as read; a
\* text whose only countdown is in range parses to that countdown; and
\* "00:27" parses to "00:27".
C24_BareTimerAsRead ==
    tm.op = "parsed" =>
        LET normalized == NormalizeSpaces(tm.text)
            at == {j \in 1..Len(normalized) : TimerOnlyAt(normalized, j)}
        IN /\ FirstRingTimer(normalized) = 0
                => /\ \/ tm.timer = NoTimer
                      \/ \E j \in at :
                            HoldsCountdown(normalized, j) /\ tm.timer = BareFormAt(normalized, j)
                   /\ \A j \in at :
                         at = {j} /\ HoldsCountdown(normalized, j)
                            => tm.timer = BareFormAt(normalized, j)
           /\ tm.text = <<"0", "0", ":", "2", "7">> => tm.timer = <<"0", "0", ":", "2", "7">>

\* "00:27" was read with no ring digit and parsed to "00:27".
C24_Witness ==
    /\ tm.op = "parsed"
    /\ tm.text = <<"0", "0", ":", "2", "7">>
    /\ tm.timer = <<"0", "0", ":", "2", "7">>

BothParsed == tm.primary_timer # NoTimer /\ tm.secondary_timer # NoTimer

RingOf(timer) == IF Len(SplitColon(timer)) = 3 THEN SplitColon(timer)[1] ELSE <<>>

\* C26: two parsed observations that carry different ring digits never match
\* and no offset is reported, whatever their countdowns.
C26_RingsMustAgree ==
    tm.op = "synced" /\ BothParsed
        /\ RingOf(tm.primary_timer) # <<>> /\ RingOf(tm.secondary_timer) # <<>>
        /\ RingOf(tm.primary_timer) # RingOf(tm.secondary_timer)
        => ~tm.timers_match /\ ~tm.has_offset

\* C27: the bookmark log only grows by appending, and a load of the log
\* while a worker writes it gives whole records only: the load succeeds and
\* its events are the first of the records written, unchanged and in order.
C27_ReadersSeeWholeRecords ==
    bk.rd.status \in {"ok", "error"} =>
        bk.rd.status = "ok" /\ IsPrefix(bk.rd.events, bk.written)

\* The bytes of the log are never rewritten: the file only grows at its end.
LogOnlyGrows == [][IsPrefix(bk.file, bk.file')]_vars

\* C31: the first get_progress after start_download returned reports the job
\* as "initializing" with percentage 0, wherever the download thread is; and
\* its status is among initializing, downloading and error.
C31_NewJobIsInitializing ==
    dl.polls > 0 =>
        /\ dl.first.status = "initializing" /\ dl.first.percentage = 0
        /\ dl.first.status \in {"initializing", "downloading", "error"}

\* C32: a pause marker created while a worker scans is detected: the worker
\* stops in Paused, and the marker holds its frame_index and bookmark log.
C32_PauseIsAcknowledged ==
    \A w \in Workers :
        (proc[w].pc = "scanning" /\ paused_marker.kind = "request")
            ~> (proc[w].pc = "paused" /\ paused_marker.kind = "state")

\* C33: a worker started without the resume flag and left alone begins at
\* frame 0 and reaches the end of the video, whatever the markers it finds.
C33_FreshStartCompletes ==
    \A w \in Workers :
        /\ [](proc[w].pc = "scanning" /\ ~proc[w].resume => proc[w].start_frame = 0)
        /\ (proc[w].pc = "starting" /\ ~proc[w].resume) ~> (proc[w].pc = "completed")

\* The bookmarks of a scan of the video that runs from frame 1 to the end in
\* one worker: the matching sampled frames, a cooldown apart.
RECURSIVE UninterruptedFrom(_, _)
UninterruptedFrom(f, last) ==
    IF f > TotalFrames THEN <<>>
    ELSE IF /\ f % SampleInterval = 0
            /\ detect_match(video[f], Keywords) # <<>>
            /\ (last = NoLog \/ SecondsOf(f) - last >= CooldownTicks)
    THEN <<SecondsOf(f)>> \o UninterruptedFrom(f + 1, SecondsOf(f))
    ELSE UninterruptedFrom(f + 1, last)
\* The log a run of the worker wrote to.
LogOfRun(r) == IF r.created # NoLog THEN r.created ELSE r.from_file

\* C34: when a scan that was paused and resumed reaches the end of the video,
\* its log holds the bookmarks of an uninterrupted scan: the same frames, in
\* the same order, none twice, none missing.
C34_ResumedScanSameBookmarks ==
    \A w \in Workers :
        proc[w].pc = "completed" /\ LogOfRun(run[w]) \in LogIds
            => logs[LogOfRun(run[w])].recs = UninterruptedFrom(1, NoLog)

\* C35: in every bookmark log the records are in increasing order of elapsed
\* time, and two consecutive records are at least the cooldown apart.
C35_LogOrderedAndSpaced ==
    \A l \in LogIds :
        \A k \in 1..(Len(logs[l].recs) - 1) :
            /\ logs[l].recs[k] < logs[l].recs[k + 1]
            /\ logs[l].recs[k + 1] - logs[l].recs[k] >= CooldownTicks

\* The windows of a list that hold a time, ends included (the test the clip
\* names use to count events).
HoldersOf(ws, t) == {j \in 1..Len(ws) : ws[j].start <= t /\ t <= ws[j].end}

\* C36: for pre-roll, post-roll and gap >= 0 the merged windows are sorted by
\* start, each starts more than gap after the end of the one before it, and
\* every event time lies in exactly one of them.
C36_EventsCountedOnce ==
    (sp.pc \notin {"rest", "no_bookmarks"} /\ sp.pre >= 0 /\ sp.post >= 0 /\ sp.gap >= 0) =>
        /\ \A k \in 1..(Len(sp.windows) - 1) :
              /\ sp.windows[k].start <= sp.windows[k + 1].start
              /\ sp.windows[k + 1].start > sp.windows[k].end + sp.gap
        /\ \A k \in 1..Len(sp.events) :
              Cardinality(HoldersOf(sp.windows, sp.events[k])) = 1

\* Three bookmarks given out of order ended in two windows, one of them
\* holding two bookmarks.
C36_Witness ==
    /\ sp.pc \notin {"rest", "no_bookmarks"}
    /\ Len(sp.events) = 3 /\ Len(sp.windows) = 2
    /\ sp.events[1] > sp.events[2]
    /\ \E j \in 1..2 : Cardinality({k \in 1..3 : j \in HoldersOf(sp.windows, sp.events[k])}) = 2

\* The offset every vod has when create_session stores it.
OffsetAtCreation == MultiVodSessionVod("a", "p", 3).offset

\* C37: under one request at a time the offset_history of every vod is a
\* chain: the first old_offset is the offset at creation, each later
\* old_offset is the new_offset of the entry before it, and the last
\* new_offset is the vod's current offset.
C37_HistoryIsChain ==
    SessionExists =>
        \A i \in 1..Len(disk[1].vods) :
            LET vod == disk[1].vods[i]
                h == vod.offset_history
            IN h # <<>> =>
                  /\ h[1].old_offset = OffsetAtCreation
                  /\ \A k \in 2..Len(h) : h[k].old_offset = h[k - 1].new_offset
                  /\ h[Len(h)].new_offset = vod.offset

\* A vod was moved twice, by a single update and by a batch, to two
\* different offsets.
C37_Witness ==
    /\ SessionExists
    /\ lastCall.op = "batch_update_offsets" /\ lastCall.result = "ok"
    /\ \E i \in 1..Len(disk[1].vods) :
          LET h == disk[1].vods[i].offset_history
          IN /\ Len(h) = 2
             /\ h[1].new_offset # h[2].new_offset
             /\ disk[1].vods[i].offset = h[2].new_offset

\* A pause, resume or stop request for the video, or the completion of a
\* worker scanning it.
OperationOn(path) ==
    \/ api_pause_vod_ocr(path)
    \/ api_resume_vod_ocr(path)
    \/ api_stop_vod_ocr(path)
    \/ \E w \in Pids : fleet.procs[w].path = path /\ MainEnds(w)

ScannedBy(path) == {w \in Pids : fleet.procs[w].pc = "scanning" /\ fleet.procs[w].path = path}

\* C38: a pause, resume, stop or completion for one video never changes the
\* markers, the reported scan state or the worker of a different video that
\* is being scanned, for every pair of distinct video paths.
C38_ScansDoNotInterfere ==
    [][\A path, other \in VodPaths :
          (path # other /\ OperationOn(path) /\ ScannedBy(other) # {}) =>
              /\ fleet'.paused[SafeStem(other)] = fleet.paused[SafeStem(other)]
              /\ fleet'.scanning[SafeStem(other)] = fleet.scanning[SafeStem(other)]
              /\ ScanStateOf(fleet', other) = ScanStateOf(fleet, other)
              /\ \A w \in ScannedBy(other) : fleet'.procs[w] = fleet.procs[w]]_vars

\* C39: whatever start, pause, resume and stop requests arrive for a video,
\* at most one worker is scanning it at any time.
C39_OneWorkerPerVideo ==
    \A path \in VodPaths : Cardinality(ScannedBy(path)) <= 1

====
